---------------------------- MODULE Spec2Model ----------------------------
(***************************************************************************)
(* A model of the contract_parser backend (alexonderia/contract_parser).   *)
(*                                                                         *)
(* Strings are sequences of one-character tokens.  A Cyrillic letter is    *)
(* written as one Latin token, letter for letter (с->"s", п->"p",          *)
(* ц->"c", я->"ya", ю->"yu", ч->"ch", ь->"'", an upper-case letter as the  *)
(* upper-case token), so that substring and regular-expression searches    *)
(* are computed on the characters, as the code computes them.              *)
(*                                                                         *)
(* Python indices are kept 0-based; a sequence s of the model holds the    *)
(* Python element s[i] at position i + 1.  None, where an index is         *)
(* expected, is -1.                                                        *)
(***************************************************************************)
EXTENDS Integers, Sequences, FiniteSets, TLC

VARIABLES
    enable_fallback,  \* SpecificationExtractor._enable_fallback
    ex_pc,            \* "idle" | "done": position of the extractor's caller
    ex_call,          \* arguments of the last extract_specification call
    ex_ret,           \* what that call returned or raised
    api_log,          \* the requests the HTTP API has answered, oldest first
    health_run,       \* the GET /api/health request being answered, if any
    upload_run,       \* the POST /api/specification request being answered
    lib_run,          \* the call of a document helper being made, if any
    export_dir,       \* the files of the export directory: path and payload
    export_log,       \* the exports made and the files removed, oldest first
    exporting,        \* per exporting process: the target path it has chosen
    process           \* the server process: environment, caches, requests

\* the variables of the request handlers
handler_vars ==
    <<enable_fallback, ex_pc, ex_call, ex_ret, api_log, health_run, upload_run>>
\* the variables of the exporter
export_vars == <<export_dir, export_log, exporting>>
\* the variables outside the request handlers
rest_vars == <<lib_run, export_vars, process>>

vars == <<handler_vars, rest_vars>>

-----------------------------------------------------------------------------
(* Bounds of the model.                                                    *)

\* Lines of a short input text of the raw-text extractor.
MaxLines == 3
\* Filler lines between the heading and the stop-word line of a long text.
MaxFill == 6

-----------------------------------------------------------------------------
(* Python str and list helpers.                                            *)

Min(S) == CHOOSE x \in S : \A y \in S : x <= y
Max(S) == CHOOSE x \in S : \A y \in S : x >= y

\* str.isspace for the characters of the model
WS == {" ", "\n", "\t"}
Digits == {"0", "1", "2", "3", "4", "5", "6", "7", "8", "9"}
DigitChars == <<"0", "1", "2", "3", "4", "5", "6", "7", "8", "9">>

\* str.strip()
strip(s) ==
    LET idx == {i \in 1..Len(s) : s[i] \notin WS}
    IN  IF idx = {} THEN <<>> ELSE SubSeq(s, Min(idx), Max(idx))

\* str.rstrip()
rstrip(s) ==
    LET idx == {i \in 1..Len(s) : s[i] \notin WS}
    IN  IF idx = {} THEN <<>> ELSE SubSeq(s, 1, Max(idx))

\* str.lower() / re.IGNORECASE on the letters of the model
LowerLetters ==
    <<"a", "b", "v", "g", "d", "e", "zh", "z", "i", "j", "k", "l", "m", "n",
      "o", "p", "r", "s", "t", "u", "f", "h", "c", "ch", "sh", "shch", "y",
      "yu", "ya", "x">>
UpperLetters ==
    <<"A", "B", "V", "G", "D", "E", "ZH", "Z", "I", "J", "K", "L", "M", "N",
      "O", "P", "R", "S", "T", "U", "F", "H", "C", "CH", "SH", "SHCH", "Y",
      "YU", "YA", "X">>

LowerChar(c) ==
    IF \E i \in 1..Len(UpperLetters) : UpperLetters[i] = c
        THEN LowerLetters[CHOOSE i \in 1..Len(UpperLetters) : UpperLetters[i] = c]
        ELSE c

UpperChar(c) ==
    IF \E i \in 1..Len(LowerLetters) : LowerLetters[i] = c
        THEN UpperLetters[CHOOSE i \in 1..Len(LowerLetters) : LowerLetters[i] = c]
        ELSE c

lower(s) == [i \in 1..Len(s) |-> LowerChar(s[i])]

\* str.upper()
upper(s) == [i \in 1..Len(s) |-> UpperChar(s[i])]

\* pat in s
contains(s, pat) ==
    \E i \in 1..(Len(s) - Len(pat) + 1) : SubSeq(s, i, i + Len(pat) - 1) = pat

\* str.splitlines() (the model's only line break is "\n")
RECURSIVE splitlines(_)
splitlines(s) ==
    IF s = <<>> THEN <<>>
    ELSE LET nl == {i \in 1..Len(s) : s[i] = "\n"}
         IN  IF nl = {} THEN <<s>>
             ELSE <<SubSeq(s, 1, Min(nl) - 1)>>
                      \o splitlines(SubSeq(s, Min(nl) + 1, Len(s)))

\* sep.join(parts)
RECURSIVE join(_, _)
join(sep, parts) ==
    IF parts = <<>> THEN <<>>
    ELSE IF Len(parts) = 1 THEN parts[1]
    ELSE parts[1] \o sep \o join(sep, Tail(parts))

\* str.split(sep) for a one-character separator
RECURSIVE split(_, _)
split(s, sep) ==
    LET at == {i \in 1..Len(s) : s[i] = sep}
    IN  IF at = {} THEN <<s>>
        ELSE <<SubSeq(s, 1, Min(at) - 1)>>
                 \o split(SubSeq(s, Min(at) + 1, Len(s)), sep)

\* [f(x) for x in xs if x] on strings: the stripped, non-blank parts
StripNonBlank(parts) ==
    LET stripped == [i \in 1..Len(parts) |-> strip(parts[i])]
        NonBlank(p) == p # <<>>
    IN  SelectSeq(stripped, NonBlank)

digit_count(s) == Cardinality({i \in 1..Len(s) : s[i] \in Digits})


\* re.split(r"\s{3,}|\t", s): at each position a run of 3 or more whitespace
\* characters is tried first (greedy), then a single tab
RECURSIVE re_split_cells(_)
re_split_cells(s) ==
    IF s = <<>> THEN << <<>> >>
    ELSE LET nonws == {i \in 1..Len(s) : s[i] \notin WS}
             run == IF nonws = {} THEN Len(s) ELSE Min(nonws) - 1
         IN  IF run >= 3
                 THEN << <<>> >> \o re_split_cells(SubSeq(s, run + 1, Len(s)))
             ELSE IF s[1] = "\t"
                 THEN << <<>> >> \o re_split_cells(Tail(s))
             ELSE LET rest == re_split_cells(Tail(s))
                  IN  << <<s[1]>> \o rest[1] >> \o Tail(rest)

-----------------------------------------------------------------------------
(* JSON values, as json.loads returns them.                                *)

NoneV == [t |-> "None"]
JNull == [t |-> "null"]
JNum(n) == [t |-> "num", n |-> n]
\* true and false
JBool(b) == [t |-> "bool", b |-> b]
JStr(s) == [t |-> "str", s |-> s]
JList(l) == [t |-> "list", l |-> l]
\* f: a function from the keys present to their values
JDict(f) == [t |-> "dict", f |-> f]

\* bool(v) is False
Falsy(v) ==
    \/ v.t \in {"None", "null"}
    \/ v.t = "num" /\ v.n = 0
    \/ v.t = "bool" /\ ~v.b
    \/ v.t = "str" /\ v.s = <<>>
    \/ v.t = "list" /\ v.l = <<>>
    \/ v.t = "dict" /\ DOMAIN v.f = {}

\* dict.get(key): None when the key is absent, JSON null reads as None too
Get(d, key) == IF key \in DOMAIN d.f THEN d.f[key] ELSE NoneV

\* str(v), for the values the model draws (numbers 0..9)
PyStr(v) ==
    CASE v.t = "str" -> v.s
      [] v.t = "num" -> <<DigitChars[v.n + 1]>>
      [] v.t = "bool" -> IF v.b THEN <<"T", "r", "u", "e">>
                         ELSE <<"F", "a", "l", "s", "e">>
      [] v.t \in {"None", "null"} -> <<"N", "o", "n", "e">>
      [] v.t = "list" -> <<"[">> \o (IF v.l = <<>> THEN <<>> ELSE <<".">>) \o <<"]">>
      [] OTHER -> <<"{">> \o (IF DOMAIN v.f = {} THEN <<>> ELSE <<".">>) \o <<"}">>

\* iter(v): the items a for loop visits, or a TypeError
Iter(v) ==
    CASE v.t = "list" -> [t |-> "ok", items |-> v.l]
      [] v.t = "str" -> [t |-> "ok", items |-> [i \in 1..Len(v.s) |-> JStr(<<v.s[i]>>)]]
      \* a dict iterates its keys: strings, which _flatten_tables skips as
      \* tables; the model draws no dict as a row
      [] v.t = "dict" -> [t |-> "ok", items |-> <<>>]
      [] OTHER -> [t |-> "TypeError", items |-> <<>>]

\* [str(x).strip() for x in items if str(x).strip()]
StrStripNonBlank(items) ==
    StripNonBlank([i \in 1..Len(items) |-> PyStr(items[i])])

RECURSIVE ConcatAll(_)
ConcatAll(ss) == IF ss = <<>> THEN <<>> ELSE ss[1] \o ConcatAll(Tail(ss))

-----------------------------------------------------------------------------
(* services/specification_extractor.py: the raw-text extractor.            *)

\* re.compile(r"спецификац", re.IGNORECASE)
SpecPattern == <<"s", "p", "e", "c", "i", "f", "i", "k", "a", "c">>

\* SpecificationExtractor.STOP_WORDS: подпис, реквизит, условия, порядок,
\* гарантии, оплата, ответственность, заключительн
STOP_WORDS ==
    << <<"p", "o", "d", "p", "i", "s">>,
       <<"r", "e", "k", "v", "i", "z", "i", "t">>,
       <<"u", "s", "l", "o", "v", "i", "ya">>,
       <<"p", "o", "r", "ya", "d", "o", "k">>,
       <<"g", "a", "r", "a", "n", "t", "i", "i">>,
       <<"o", "p", "l", "a", "t", "a">>,
       <<"o", "t", "v", "e", "t", "s", "t", "v", "e", "n", "n", "o", "s", "t", "'">>,
       <<"z", "a", "k", "l", "yu", "ch", "i", "t", "e", "l", "'", "n">> >>

\* the least number of lines between the start and a stop line: idx - start > 5
StopDistance == 5

\* stop_pattern.search(current), the pattern being "|".join(STOP_WORDS)
stop_search(current) ==
    \E w \in 1..Len(STOP_WORDS) : contains(lower(current), lower(STOP_WORDS[w]))

\* the last line the pattern is found in
_locate_start_last(lines) ==
    LET hits == {idx \in 0..(Len(lines) - 1) :
                     contains(lower(lines[idx + 1]), SpecPattern)}
    IN  IF hits = {} THEN -1 ELSE Max(hits)
\* the first line the pattern is found in, or None (-1)
_locate_start(lines) ==
    LET hits == {idx \in 0..(Len(lines) - 1) :
                     contains(lower(lines[idx + 1]), SpecPattern)}
    IN  IF hits = {} THEN -1 ELSE Min(hits)

\* _locate_end with the distance test off by one
_locate_end_at_distance(lines, start_index) ==
    LET hits == {idx \in (start_index + 1)..(Len(lines) - 1) :
                     LET current == lower(strip(lines[idx + 1]))
                     IN  /\ current # <<>>
                         /\ stop_search(current)
                         /\ idx - start_index >= StopDistance}
    IN  IF hits = {} THEN Len(lines) ELSE Min(hits)

\* the first non-blank stop-word line more than 5 lines after the start, or
\* len(lines)
_locate_end(lines, start_index) ==
    LET hits == {idx \in (start_index + 1)..(Len(lines) - 1) :
                     LET current == lower(strip(lines[idx + 1]))
                     IN  /\ current # <<>>
                         /\ stop_search(current)
                         /\ idx - start_index > StopDistance}
    IN  IF hits = {} THEN Len(lines) ELSE Min(hits)

\* the block with the line at the end index included
_heuristic_extract_through_end(text) ==
    LET raw_lines == splitlines(text)
        lines == [i \in 1..Len(raw_lines) |-> rstrip(raw_lines[i])]
        start_index == _locate_start(lines)
    IN  IF start_index = -1 THEN <<>>
        ELSE LET end_index == _locate_end(lines, start_index)
             IN  strip(join(<<"\n">>,
                            SubSeq(lines, start_index + 1,
                                   Min({end_index + 1, Len(lines)}))))
\* SpecificationExtractor._heuristic_extract(text)
_heuristic_extract(text) ==
    LET raw_lines == splitlines(text)
        lines == [i \in 1..Len(raw_lines) |-> rstrip(raw_lines[i])]
        start_index == _locate_start(lines)
    IN  IF start_index = -1 THEN <<>>
        ELSE LET end_index == _locate_end(lines, start_index)
             IN  strip(join(<<"\n">>, SubSeq(lines, start_index + 1, end_index)))

\* the cells one line of the block yields
line_cells(cleaned) ==
    IF contains(cleaned, <<"|">>)
        THEN StripNonBlank(split(cleaned, "|"))
        ELSE StripNonBlank(re_split_cells(cleaned))

\* a line with a single digit kept as a row
_extract_table_rows_one_digit(block) ==
    LET lines == splitlines(block)
        cleaned == [i \in 1..Len(lines) |-> strip(lines[i])]
        IsRow(c) == /\ c # <<>>
                    /\ Len(line_cells(c)) >= 2
                    /\ digit_count(c) >= 1
        kept == SelectSeq(cleaned, IsRow)
    IN  [i \in 1..Len(kept) |-> line_cells(kept[i])]
\* SpecificationExtractor._extract_table_rows(block)
_extract_table_rows(block) ==
    LET lines == splitlines(block)
        cleaned == [i \in 1..Len(lines) |-> strip(lines[i])]
        IsRow(c) == /\ c # <<>>
                    /\ Len(line_cells(c)) >= 2
                    /\ digit_count(c) >= 2
        kept == SelectSeq(cleaned, IsRow)
    IN  [i \in 1..Len(kept) |-> line_cells(kept[i])]

\* raw: the model's reply, [form: "blank" | "notjson" | "json", v: the value
\* json.loads returns for the stripped reply]
_parse_model_response(raw) ==
    IF raw.form # "json" THEN NoneV
    ELSE IF raw.v.t # "dict" THEN NoneV
    ELSE LET sections == Get(raw.v, "specification_sections")
         IN  IF Falsy(sections) THEN raw.v
             ELSE IF sections.t = "list"
                 THEN LET kept == StrStripNonBlank(sections.l)
                          cleaned == JList([i \in 1..Len(kept) |-> JStr(kept[i])])
                      IN  JDict([raw.v.f EXCEPT !["specification_sections"] = cleaned])
             ELSE raw.v

\* [[str(cell).strip() ...] for row in rows], or a TypeError when a row cannot
\* be iterated
rows_of(rows) ==
    IF \E i \in 1..Len(rows) : Iter(rows[i]).t = "TypeError"
        THEN [t |-> "TypeError", rows |-> <<>>]
        ELSE [t |-> "ok",
              rows |-> [i \in 1..Len(rows) |-> StrStripNonBlank(Iter(rows[i]).items)]]

table_rows_of(table) ==
    IF table.t = "dict"
        THEN LET rows == Get(table, "rows")
             IN  IF rows.t = "list" THEN rows_of(rows.l)
                 ELSE [t |-> "ok", rows |-> <<>>]
    ELSE IF table.t = "list" THEN rows_of(table.l)
    ELSE [t |-> "ok", rows |-> <<>>]

_flatten_tables(tables) ==
    IF Falsy(tables) THEN [t |-> "ok", rows |-> <<>>]
    ELSE IF Iter(tables).t = "TypeError" THEN [t |-> "TypeError", rows |-> <<>>]
    ELSE LET items == Iter(tables).items
             per == [i \in 1..Len(items) |-> table_rows_of(items[i])]
             NonEmpty(row) == row # <<>>
         IN  IF \E i \in 1..Len(per) : per[i].t = "TypeError"
                 THEN [t |-> "TypeError", rows |-> <<>>]
                 ELSE [t |-> "ok",
                       rows |-> SelectSeq(ConcatAll([i \in 1..Len(per) |-> per[i].rows]),
                                          NonEmpty)]

\* text = text.strip()
input_text_unstripped(raw_text) == raw_text

input_text(raw_text) == strip(raw_text)

\* the except clauses around the model call: OllamaError, then Exception, so
\* every exception class raised inside the try is caught and only logged
caught_only_client_errors(exc) == exc = "OllamaError"

\* the subclasses of Exception the model raises
ExceptionClasses ==
    {"OllamaError", "RuntimeError", "TypeError", "AttributeError", "JSONDecodeError"}

caught(exc) == exc = "OllamaError" \/ exc \in ExceptionClasses

\* what extract_specification does after the model path did not return
fallback_always(self_enable_fallback, text, model_output, reasoning, calls) ==
    LET block == _heuristic_extract(text)
    IN  [kind |-> "return",
         specification_text |-> block,
         table_rows |-> _extract_table_rows(block),
         used_fallback |-> TRUE,
         raw_model_output |-> model_output,
         reasoning |-> reasoning,
         generate_calls |-> calls, heuristic_runs |-> 1]

fallback_or_raise(self_enable_fallback, text, model_output, reasoning, calls) ==
    IF ~self_enable_fallback
        THEN [kind |-> "raise", exc |-> "OllamaError",
              msg |-> "Model response could not be parsed and heuristic fallback is disabled",
              generate_calls |-> calls, heuristic_runs |-> 0]
        ELSE LET block == _heuristic_extract(text)
             IN  [kind |-> "return",
                  specification_text |-> block,
                  table_rows |-> _extract_table_rows(block),
                  used_fallback |-> TRUE,
                  raw_model_output |-> model_output,
                  reasoning |-> reasoning,
                  generate_calls |-> calls, heuristic_runs |-> 1]

\* an exception raised inside the try block: caught and followed by the
\* fallback, or (were it not caught) raised to the caller
after_exception(self_enable_fallback, text, exc, model_output, reasoning) ==
    IF caught(exc)
        THEN fallback_or_raise(self_enable_fallback, text, model_output, reasoning, 1)
        ELSE [kind |-> "raise", exc |-> exc, msg |-> "",
              generate_calls |-> 1, heuristic_runs |-> 0]

\* SpecificationExtractor.extract_specification(text, prefer_model=...), given
\* what self._ollama.generate does when it is called:
\*   [t |-> "raise", exc |-> ...] or [t |-> "reply", form |-> ..., v |-> ...]
extract_specification(self_enable_fallback, raw_text, prefer_model, generate) ==
    LET text == input_text(raw_text)
    IN  IF text = <<>>
            THEN [kind |-> "raise", exc |-> "ValueError",
                  msg |-> "Contract text is empty",
                  generate_calls |-> 0, heuristic_runs |-> 0]
        ELSE IF ~prefer_model
            THEN fallback_or_raise(self_enable_fallback, text, NoneV, NoneV, 0)
        ELSE IF generate.t = "raise"
            THEN after_exception(self_enable_fallback, text, generate.exc, NoneV, NoneV)
        ELSE LET model_output == generate
                 parsed == _parse_model_response(model_output)
             IN  IF Falsy(parsed)
                     THEN fallback_or_raise(self_enable_fallback, text,
                                            model_output, NoneV, 1)
                 ELSE LET got == Get(parsed, "specification_sections")
                          sections == IF Falsy(got) THEN <<>>
                                      ELSE IF got.t = "list" THEN got.l
                                      ELSE <<JStr(PyStr(got))>>
                          cleaned_sections == StrStripNonBlank(sections)
                          notes == Get(parsed, "notes")
                          flat == _flatten_tables(Get(parsed, "tables"))
                      IN  IF cleaned_sections = <<>>
                              THEN fallback_or_raise(self_enable_fallback, text,
                                                     model_output, NoneV, 1)
                          ELSE IF flat.t = "TypeError"
                              \* raised by _flatten_tables inside the try, after
                              \* reasoning was assigned
                              THEN after_exception(self_enable_fallback, text,
                                                   "TypeError", model_output, notes)
                          ELSE [kind |-> "return",
                                specification_text |->
                                    join(<<"\n", "\n">>, cleaned_sections),
                                table_rows |-> flat.rows,
                                used_fallback |-> FALSE,
                                raw_model_output |-> model_output,
                                reasoning |-> notes,
                                generate_calls |-> 1, heuristic_runs |-> 0]

-----------------------------------------------------------------------------
(* Inputs of the raw-text extractor.                                       *)

L_ws == <<" ">>
\* " Спецификация "
L_spec == <<" ", "S", "p", "e", "c", "i", "f", "i", "k", "a", "c", "i", "ya", " ">>
\* "1   x   10"
L_row == <<"1", " ", " ", " ", "x", " ", " ", " ", "1", "0">>
\* "Подписи"
L_stop == <<"P", "o", "d", "p", "i", "s", "i">>
\* "Оплата |"
L_stop2 == <<"O", "p", "l", "a", "t", "a", " ", "|">>

ExLines == {L_ws, L_spec, L_row, L_stop}

ShortTexts ==
    {join(<<"\n">>, ls) : ls \in UNION {[1..n -> ExLines] : n \in 0..MaxLines}}

\* a heading, j rows, a stop line, k rows, a second stop line, a last row
LongText(j, k) ==
    join(<<"\n">>, <<L_row, L_spec>> \o [i \in 1..j |-> L_row] \o <<L_stop>>
                       \o [i \in 1..k |-> L_row] \o <<L_stop2, L_row>>)

LongTexts == {LongText(j, k) : j \in 1..MaxFill, k \in 0..2}

\* "Специфика работ", a line that holds "специфика" and no "спецификац"
L_specifika ==
    <<"S", "p", "e", "c", "i", "f", "i", "k", "a", " ", "r", "a", "b", "o", "t">>
\* "СПЕЦИФИКАЦИЯ 2"
L_spec2 ==
    <<"S", "P", "E", "C", "I", "F", "I", "K", "A", "C", "I", "YA", " ", "2">>

\* texts with lines that nearly hold the heading pattern, and with two
\* different headings
NearTexts ==
    {join(<<"\n">>, ls) :
        ls \in {<<L_specifika>>, <<L_specifika, L_row>>,
                <<L_row, L_specifika, L_spec, L_row>>,
                <<L_spec, L_row, L_spec2, L_row>>,
                <<L_row, L_spec2, L_row, L_spec>>}}

\* "a | 1 | 2"
L_pipe == <<"a", " ", "|", " ", "1", " ", "|", " ", "2">>
\* "x | 1", two cells and one digit
L_pipe1 == <<"x", " ", "|", " ", "1">>
\* "| 12", a blank segment and one cell
L_lead == <<"|", " ", "1", "2">>
\* "1 |   x   10", a "|" and a run of spaces
L_both == <<"1", " ", "|", " ", " ", " ", "x", " ", " ", " ", "1", "0">>
\* "a<tab>12"
L_tab == <<"a", "\t", "1", "2">>
\* "a <tab>12", a run of two whitespace characters that holds a tab
L_tab2 == <<"a", " ", "\t", "1", "2">>
\* "a  12", a run of two spaces
L_two == <<"a", " ", " ", "1", "2">>

RowLines == {L_row, L_pipe, L_pipe1, L_lead, L_both, L_tab, L_tab2, L_two}

\* a heading followed by lines that do or do not make table rows
RowTexts ==
    {join(<<"\n">>, <<L_spec>> \o ls) :
        ls \in UNION {[1..n -> RowLines] : n \in 1..2}}

Texts == ShortTexts \cup LongTexts \cup NearTexts \cup RowTexts

S_A == <<" ", "A", " ">>
S_B == <<"B">>
Row_a1 == JList(<<JStr(<<"a">>), JStr(<<" ">>), JNum(1)>>)

SectionsVals ==
    {JNull, JList(<<>>), JList(<<JStr(<<" ">>), JStr(<<>>)>>),
     JList(<<JStr(S_A), JStr(<<" ">>), JStr(S_B)>>), JList(<<JNull>>),
     JStr(S_A), JStr(<<" ">>), JNum(5), JNum(0)}

GoodSections == {JList(<<JStr(S_A), JStr(<<" ">>), JStr(S_B)>>), JStr(S_A)}

TablesVals ==
    {JNull, JList(<<>>),
     JList(<<JDict([rows |-> JList(<<Row_a1, JList(<<>>)>>)])>>),
     JList(<<JList(<<Row_a1>>), JNum(1)>>),
     JList(<<JDict([rows |-> JStr(<<"x">>)])>>),
     JStr(<<"x">>),
     JNum(5),
     JList(<<JDict([rows |-> JList(<<JNum(5)>>)])>>)}

Replies ==
    {[t |-> "reply", form |-> "blank", v |-> JNull],
     [t |-> "reply", form |-> "notjson", v |-> JNull],
     [t |-> "reply", form |-> "json", v |-> JList(<<JStr(S_A)>>)],
     [t |-> "reply", form |-> "json", v |-> JNum(5)],
     [t |-> "reply", form |-> "json", v |-> JDict(<<>>)],
     [t |-> "reply", form |-> "json", v |-> JDict([notes |-> JStr(<<"n">>)])]}
    \cup {[t |-> "reply", form |-> "json", v |-> JDict([specification_sections |-> sv])] :
              sv \in SectionsVals}
    \cup {[t |-> "reply", form |-> "json",
           v |-> JDict([specification_sections |-> sv, tables |-> tv])] :
              sv \in GoodSections, tv \in TablesVals}
    \cup {[t |-> "reply", form |-> "json",
           v |-> JDict([specification_sections |-> sv, tables |-> tv,
                        notes |-> JStr(<<"n">>)])] :
              sv \in GoodSections, tv \in {JList(<<>>), JNum(5)}}

GenerateOutcomes ==
    {[t |-> "raise", exc |-> "OllamaError"], [t |-> "raise", exc |-> "RuntimeError"]}
    \cup Replies

NotCalled == [t |-> "not_called"]
NoCall == [t |-> "no_call"]

\* the parts of the backend a specification leaves out stay as constructed
ApiIdle == api_log = <<>>
HealthIdle == health_run = NoCall
UploadIdle == upload_run = NoCall
ExtractorIdle ==
    /\ enable_fallback = TRUE
    /\ ex_pc = "idle"
    /\ ex_call = NoCall
    /\ ex_ret = NoCall
LibIdle == lib_run = NoCall
\* the processes that export into one directory; none has chosen a path
Exporters == {"e1", "e2"}
NotExporting == [p \in Exporters |-> [pc |-> "idle"]]
ExportIdle == export_dir = {} /\ export_log = <<>> /\ exporting = NotExporting
ProcessIdle == process = NoCall
RestIdle == LibIdle /\ ExportIdle /\ ProcessIdle

-----------------------------------------------------------------------------
(* The raw-text extractor as a state machine: an extractor is constructed  *)
(* with enable_fallback, then called any number of times.                  *)

InitExtractor ==
    /\ enable_fallback \in BOOLEAN
    /\ ex_pc = "idle"
    /\ ex_call = NoCall
    /\ ex_ret = NoCall
    /\ ApiIdle /\ HealthIdle /\ UploadIdle /\ RestIdle

ExtractSpecification ==
    /\ ex_pc = "idle"
    /\ \E text \in Texts, prefer_model \in BOOLEAN :
         \E generate \in (IF prefer_model /\ strip(text) # <<>>
                              THEN GenerateOutcomes ELSE {NotCalled}) :
            /\ ex_call' = [t |-> "call", text |-> text,
                           prefer_model |-> prefer_model, generate |-> generate]
            /\ ex_ret' = extract_specification(enable_fallback, text,
                                               prefer_model, generate)
    /\ ex_pc' = "done"
    /\ UNCHANGED <<enable_fallback, api_log, health_run, upload_run,
                 rest_vars>>

ExtractorReturn ==
    /\ ex_pc = "done"
    /\ ex_pc' = "idle"
    /\ ex_call' = NoCall
    /\ ex_ret' = NoCall
    /\ UNCHANGED <<enable_fallback, api_log, health_run, upload_run,
                 rest_vars>>

NextExtractor == ExtractSpecification \/ ExtractorReturn

SpecExtractor == InitExtractor /\ [][NextExtractor]_vars

-----------------------------------------------------------------------------
(* Claims about the raw-text extractor (checked under SpecExtractor).      *)

\* every character of the text is whitespace
Blank(text) == \A i \in 1..Len(text) : text[i] \in WS

ExDone == ex_pc = "done"

\* The block the fallback heuristic is said to extract: the lines from the
\* first line holding the heading pattern up to the first stop-word line more
\* than 5 lines later (or the end of the text), joined and trimmed; empty
\* when no line holds the pattern.
ExpectedBlock(text) ==
    LET raw == splitlines(strip(text))
        lines == [i \in 1..Len(raw) |-> rstrip(raw[i])]
        starts == {i \in 1..Len(lines) : contains(lower(lines[i]), SpecPattern)}
    IN  IF starts = {} THEN <<>>
        ELSE LET s == CHOOSE i \in starts : \A j \in starts : i <= j
                 ends == {e \in (s + 1)..Len(lines) :
                              /\ e - s > 5
                              /\ strip(lines[e]) # <<>>
                              /\ stop_search(lines[e])}
                 e == IF ends = {} THEN Len(lines) + 1
                      ELSE CHOOSE i \in ends : \A j \in ends : i <= j
             IN  strip(join(<<"\n">>, SubSeq(lines, s, e - 1)))

\* C1: extract_specification raises ValueError for every empty or
\* whitespace-only text, whatever prefer_model and enable_fallback are, and
\* generate is not invoked before that failure.
C1_BlankInputRaisesValueError ==
    (ExDone /\ Blank(ex_call.text)) =>
        /\ ex_ret.kind = "raise"
        /\ ex_ret.exc = "ValueError"
        /\ ex_ret.generate_calls = 0

C1_Witness ==
    /\ ExDone
    /\ ex_call.text # <<>>
    /\ Blank(ex_call.text)
    /\ ex_call.prefer_model
    /\ ~enable_fallback
    /\ ex_ret.kind = "raise"
    /\ ex_ret.exc = "ValueError"

\* C2: with fallback enabled and prefer_model=False, a non-blank text never
\* reaches generate and yields a result with used_fallback=True, no
\* raw_model_output, and the heuristic block as specification_text.
C2_PreferModelFalseUsesHeuristicOnly ==
    (ExDone /\ enable_fallback /\ ~ex_call.prefer_model /\ ~Blank(ex_call.text)) =>
        /\ ex_ret.kind = "return"
        /\ ex_ret.generate_calls = 0
        /\ ex_ret.used_fallback
        /\ ex_ret.raw_model_output = NoneV
        /\ ex_ret.specification_text = ExpectedBlock(ex_call.text)

\* a text whose block ends at a stop-word line, before the end of the text
C2_Witness ==
    /\ ExDone
    /\ enable_fallback
    /\ ~ex_call.prefer_model
    /\ ex_call.text = LongText(5, 1)
    /\ ex_ret.kind = "return"
    /\ ex_ret.used_fallback
    /\ ex_ret.specification_text # <<>>
    /\ Len(ex_ret.specification_text) + Len(L_row) < Len(strip(ex_call.text))

\* the outcomes of generate that C3 lists
C3_Outcome(g) ==
    \/ g.t = "raise"
    \/ /\ g.t = "reply"
       /\ \/ g.form \in {"blank", "notjson"}
          \/ g.v.t # "dict"
          \/ DOMAIN g.v.f = {}
          \/ "specification_sections" \notin DOMAIN g.v.f
          \/ LET sv == g.v.f["specification_sections"]
             IN  \/ sv.t = "null"
                 \/ sv.t = "list" /\ \A i \in 1..Len(sv.l) :
                                        sv.l[i].t = "str" /\ Blank(sv.l[i].s)
                 \/ sv.t = "str" /\ Blank(sv.s)

\* C3: with fallback enabled and prefer_model=True, a non-blank text never
\* makes extract_specification raise, and for every listed outcome of generate
\* (an exception of any class, or an unusable reply) the result is the
\* heuristic one, with used_fallback=True.
C3_ModelFailureFallsBack ==
    (ExDone /\ enable_fallback /\ ex_call.prefer_model /\ ~Blank(ex_call.text)) =>
        /\ ex_ret.kind = "return"
        /\ C3_Outcome(ex_call.generate) =>
              /\ ex_ret.used_fallback
              /\ ex_ret.heuristic_runs = 1
              /\ ex_ret.specification_text = ExpectedBlock(ex_call.text)

C3_Witness ==
    /\ ExDone
    /\ enable_fallback
    /\ ex_call.prefer_model
    /\ ex_call.generate.t = "raise"
    /\ ex_call.generate.exc = "RuntimeError"
    /\ ex_ret.kind = "return"
    /\ ex_ret.used_fallback
    /\ ex_ret.specification_text # <<>>

\* the reply parses to a JSON mapping whose specification_sections holds at
\* least one non-blank section (a truthy scalar counting as one section)
HasNonBlankSection(g) ==
    /\ g.t = "reply"
    /\ g.form = "json"
    /\ g.v.t = "dict"
    /\ "specification_sections" \in DOMAIN g.v.f
    /\ LET sv == g.v.f["specification_sections"]
       IN  \/ sv.t = "list" /\ \E i \in 1..Len(sv.l) : ~Blank(PyStr(sv.l[i]))
           \/ sv.t \in {"str", "num"} /\ ~Falsy(sv) /\ ~Blank(PyStr(sv))

\* the trimmed non-blank sections of the reply, joined by a blank line
JoinedSections(g) ==
    LET sv == g.v.f["specification_sections"]
        items == IF sv.t = "list" THEN sv.l ELSE <<sv>>
    IN  join(<<"\n", "\n">>, StrStripNonBlank(items))

\* C4: a result has used_fallback=False exactly when prefer_model is true and
\* the reply is a JSON mapping with at least one non-blank section, whatever
\* its tables field holds; specification_text is then the joined sections and
\* raw_model_output the reply.
C4_ModelResultIffNonBlankSections ==
    (ExDone /\ ex_ret.kind = "return") =>
        /\ ~ex_ret.used_fallback <=>
              (ex_call.prefer_model /\ HasNonBlankSection(ex_call.generate))
        /\ ~ex_ret.used_fallback =>
              /\ ex_ret.specification_text = JoinedSections(ex_call.generate)
              /\ ex_ret.raw_model_output = ex_call.generate

\* C5: without fallback, a non-blank text yields a result only when the model
\* path succeeded (used_fallback=False); every other case, prefer_model=False
\* included, raises the client failure and the heuristic never runs.
C5_NoFallbackRaisesClientError ==
    (ExDone /\ ~enable_fallback /\ ~Blank(ex_call.text)) =>
        /\ ex_ret.heuristic_runs = 0
        /\ ex_ret.kind = "return" =>
              /\ ~ex_ret.used_fallback
              /\ ex_call.prefer_model
              /\ HasNonBlankSection(ex_call.generate)
        /\ ex_ret.kind # "return" =>
              /\ ex_ret.kind = "raise"
              /\ ex_ret.exc = "OllamaError"
              /\ ex_ret.msg =
                   "Model response could not be parsed and heuristic fallback is disabled"
        /\ ~ex_call.prefer_model =>
              /\ ex_ret.kind = "raise"
              /\ ex_ret.generate_calls = 0

C5_Witness ==
    /\ ExDone
    /\ ~enable_fallback
    /\ ~ex_call.prefer_model
    /\ ~Blank(ex_call.text)
    /\ ex_ret.kind = "raise"
    /\ ex_ret.exc = "OllamaError"

-----------------------------------------------------------------------------
(* The LLM runtime as the two HTTP clients see it: one exchange either     *)
(* gets no response (connection refused, timeout) or gets a response with  *)
(* a status, a Content-Type, a body text and, for a body that is JSON,     *)
(* the decoded value.  A status is written as its digits in one token; a   *)
(* URL, a media type half and a dictionary key are one token each: the     *)
(* code never looks inside them.                                           *)

Unreachable(e) == [t |-> "unreachable", text |-> e]
HttpResponse(status, content_type, text, data) ==
    [t |-> "http", status |-> status, content_type |-> content_type,
     text |-> text, data |-> data]
\* the decoded body of a response whose body is not JSON: json() raises
InvalidJson == [t |-> "invalid"]

Raise(exc, msg) == [kind |-> "raise", exc |-> exc, msg |-> msg]
Return(v) == [kind |-> "return", v |-> v]

\* HTTPException(status_code, detail) as FastAPI renders it
HTTPException(status_code, detail) ==
    [status |-> status_code, body |-> [detail |-> detail]]
\* an exception no handler catches: FastAPI's fixed 500 response
InternalServerError ==
    [status |-> "500", body |-> [detail |-> <<"Internal Server Error">>]]
Ok(body) == [status |-> "200", body |-> body]

\* settings.ollama_base_url, settings.chat_model
ollama_base_url == <<"http://ollama:11434">>
chat_model == <<"llama3">>

\* the keys of the JSON objects of the model, in the order json.dumps
\* writes them (the order the runtime sent them in)
KeyOrder ==
    <<"model", "message", "role", "content", "text", "response", "reply",
      "done", "error", "specification_sections", "tables", "notes", "rows",
      "found", "reason", "heading", "start", "end", "start_anchor", "end_anchor",
      "line", "preview", "type", "index", "row_count", "column_count">>

\* json.dumps(v, ensure_ascii=False), for strings that need no escaping
RECURSIVE json_dumps(_)
json_dumps(v) ==
    CASE v.t = "str" -> <<"\"">> \o v.s \o <<"\"">>
      [] v.t = "num" -> <<DigitChars[v.n + 1]>>
      [] v.t = "bool" -> IF v.b THEN <<"t", "r", "u", "e">>
                         ELSE <<"f", "a", "l", "s", "e">>
      [] v.t \in {"null", "None"} -> <<"n", "u", "l", "l">>
      [] v.t = "list" ->
            <<"[">> \o join(<<",", " ">>,
                            [i \in 1..Len(v.l) |-> json_dumps(v.l[i])])
                    \o <<"]">>
      [] OTHER ->
            LET Present(k) == k \in DOMAIN v.f
                keys == SelectSeq(KeyOrder, Present)
            IN  <<"{">> \o join(<<",", " ">>,
                                [i \in 1..Len(keys) |->
                                    <<"\"", keys[i], "\"", ":", " ">>
                                        \o json_dumps(v.f[keys[i]])])
                        \o <<"}">>

\* OllamaClient._post(path, payload), given the exchange with the runtime
_post(path, up) ==
    LET url == ollama_base_url \o path
    IN  IF up.t = "unreachable"
            THEN Raise("OllamaError",
                       <<"Failed to connect to Ollama at ">> \o url
                           \o <<": ">> \o up.text)
        ELSE IF up.status # "200"
            THEN Raise("OllamaError",
                       <<"Ollama POST ">> \o url \o <<" failed with status ">>
                           \o <<up.status>> \o <<": ">> \o up.text)
        ELSE IF ~contains(up.content_type, <<"json">>)
            THEN Raise("OllamaError",
                       <<"Unexpected content type from Ollama: ">>
                           \o up.content_type)
        ELSE IF up.data.t = "invalid"
            THEN Raise("JSONDecodeError", <<"Expecting value">>)
        ELSE Return(up.data)

\* OllamaClient._extract_response_text(data)
_extract_response_text(data) ==
    IF data.t = "dict"
        THEN LET response == Get(data, "response")
             IN  IF response.t \in {"None", "null"}
                     THEN Return(json_dumps(data))
                     ELSE Return(PyStr(response))
    ELSE IF data.t = "list"
        THEN IF \E i \in 1..Len(data.l) : data.l[i].t # "dict"
                 THEN Raise("AttributeError", <<"no attribute 'get'">>)
             ELSE LET Part(chunk) == IF "response" \in DOMAIN chunk.f
                                         THEN PyStr(chunk.f["response"])
                                         ELSE <<>>
                      combined == ConcatAll([i \in 1..Len(data.l) |->
                                                Part(data.l[i])])
                  IN  IF combined # <<>> THEN Return(combined)
                      ELSE Return(json_dumps(data))
    ELSE Return(json_dumps(data))

\* OllamaClient.chat(model, messages, stream=False)
OllamaClient_chat(model, messages, up) ==
    LET payload == [model |-> model, messages |-> messages, stream |-> FALSE]
        data == _post(<<"/api/chat">>, up)
    IN  IF data.kind = "raise" THEN data
        ELSE LET text == _extract_response_text(data.v)
             IN  IF text.kind = "raise" THEN text
                 ELSE Return([model |-> model, response |-> text.v,
                              raw |-> [request |-> payload, response |-> data.v]])

\* OllamaClient.generate(model, prompt), as the extractor's generate outcome
OllamaClient_generate(model, prompt, up) ==
    LET payload == [model |-> model, prompt |-> prompt, stream |-> FALSE]
        data == _post(<<"/api/generate">>, up)
    IN  IF data.kind = "raise" THEN data
        ELSE LET text == _extract_response_text(data.v)
             IN  IF text.kind = "raise" THEN text
                 ELSE Return([model |-> model, response |-> text.v,
                              raw |-> [request |-> payload, response |-> data.v]])

\* POST /chat of the router: chat(payload, client)
routes_chat(payload, up) ==
    LET history == payload.history
        messages == history \o <<[role |-> "user", content |-> payload.message]>>
        response == OllamaClient_chat(chat_model, messages, up)
    IN  IF response.kind = "raise"
            THEN IF response.exc = "OllamaError"
                     THEN HTTPException("502", response.msg)
                     ELSE InternalServerError
            ELSE Ok([reply |-> strip(response.v.response),
                     model |-> response.v.model])

\* app.ollama: OllamaClient.chat(messages), the asynchronous client.
\* A transport failure is an httpx.HTTPError, an error status makes
\* raise_for_status raise httpx.HTTPStatusError, and a body that is not JSON
\* makes response.json() raise a ValueError, which is no httpx.HTTPError.
ollama_chat(messages, up) ==
    IF up.t = "unreachable" THEN Raise("HTTPError", up.text)
    ELSE IF up.status # "200"
        THEN Raise("HTTPStatusError", <<up.status>> \o up.text)
    ELSE IF up.data.t = "invalid"
        THEN Raise("JSONDecodeError", <<"Expecting value">>)
    ELSE Return(up.data)

\* app.ollama: OllamaClient.list_models()
list_models(up) ==
    IF up.t = "unreachable" THEN Raise("HTTPError", up.text)
    ELSE IF up.status # "200"
        THEN Raise("HTTPStatusError", <<up.status>> \o up.text)
    ELSE IF up.data.t = "invalid"
        THEN Raise("JSONDecodeError", <<"Expecting value">>)
    ELSE Return(up.data)

\* x or y
Or(x, y) == IF Falsy(x) THEN y ELSE x

\* app.main: _extract_reply(data)
_extract_reply(data) ==
    IF data.t # "dict" THEN Raise("AttributeError", <<"no attribute 'get'">>)
    ELSE LET message == Or(Get(data, "message"), JDict(<<>>))
         IN  IF message.t # "dict"
                 THEN Raise("AttributeError", <<"no attribute 'get'">>)
             ELSE LET content == Or(Get(message, "content"), Get(message, "text"))
                  IN  IF content.t = "str" THEN Return(strip(content.s))
                      ELSE IF content.t = "list"
                          THEN Return(join(<<"\n">>,
                                           [i \in 1..Len(content.l) |->
                                               PyStr(content.l[i])]))
                      ELSE LET fallback == Or(Or(Get(data, "response"),
                                                 Get(data, "reply")),
                                              JStr(<<>>))
                           IN  Return(strip(PyStr(fallback)))

\* app.llm_utils: extract_reply(data)
extract_reply(data) ==
    LET message == IF data.t = "dict" THEN Get(data, "message") ELSE NoneV
        content == IF message.t = "dict"
                       THEN Or(Get(message, "content"), Get(message, "text"))
                       ELSE NoneV
    IN  IF content.t = "str" THEN strip(content.s)
        ELSE IF content.t = "list"
            THEN strip(join(<<"\n">>,
                            [i \in 1..Len(content.l) |-> PyStr(content.l[i])]))
        ELSE LET fallback == IF data.t = "dict"
                                 THEN Or(Get(data, "response"), Get(data, "reply"))
                                 ELSE JStr(<<>>)
             IN  strip(PyStr(Or(fallback, JStr(<<>>))))

EmptyReply == <<"(pustoj otvet)">>

\* app.main: POST /api/chat, chat(request)
main_chat(request, up) ==
    LET Kept(item) == strip(item.content) # <<>>
        messages == SelectSeq(request.history, Kept)
                        \o <<[role |-> "user", content |-> request.message]>>
        raw == ollama_chat(messages, up)
    IN  IF raw.kind = "raise"
            THEN IF raw.exc = "HTTPStatusError"
                     THEN HTTPException("502", <<"Ollama vernula oshibku">>)
                 ELSE IF raw.exc = "HTTPError"
                     THEN HTTPException("502",
                                        <<"Ne udalos' podklyuchit'sya k Ollama">>)
                 ELSE InternalServerError
        ELSE LET reply == _extract_reply(raw.v)
             IN  IF reply.kind = "raise" THEN InternalServerError
                 ELSE Ok([reply |-> IF reply.v = <<>> THEN EmptyReply ELSE reply.v,
                          raw |-> raw.v])

\* settings.specification_model
specification_model == <<"llama3">>

\* the JSON documents the runtime of the model writes as a generate reply
ReplyValues ==
    {JDict([specification_sections |-> JList(<<JStr(S_A)>>)]),
     JDict([specification_sections |-> JStr(S_A), tables |-> JNum(5)]),
     JDict([specification_sections |-> JStr(S_A), notes |-> JNum(5)]),
     JDict([error |-> JStr(<<"e">>)]),
     JList(<<>>)}

\* json.loads(text), on the texts of the model: the value whose JSON text it
\* is, or a JSONDecodeError
json_loads(text) ==
    IF \E v \in ReplyValues : json_dumps(v) = text
        THEN Return(CHOOSE v \in ReplyValues : json_dumps(v) = text)
        ELSE Raise("JSONDecodeError", <<"Expecting value">>)

\* a reply text as _parse_model_response reads it: blank, not JSON, or JSON
reply_of(text) ==
    LET raw == strip(text)
        parsed == json_loads(raw)
    IN  [t |-> "reply",
         form |-> IF raw = <<>> THEN "blank"
                  ELSE IF parsed.kind = "raise" THEN "notjson" ELSE "json",
         v |-> IF raw # <<>> /\ parsed.kind = "return" THEN parsed.v ELSE JNull]

\* POST /specification/extract of the router: extract_specification(payload,
\* extractor), the extractor built by get_specification_extractor (fallback
\* enabled) over the synchronous client
routes_extract_specification(payload, up) ==
    LET response == OllamaClient_generate(specification_model, payload.text, up)
        generate == IF response.kind = "raise"
                        THEN [t |-> "raise", exc |-> response.exc]
                        ELSE reply_of(response.v.response)
        result == extract_specification(TRUE, payload.text, payload.prefer_model,
                                        generate)
    IN  IF result.kind = "raise"
            THEN IF result.exc = "ValueError"
                     THEN HTTPException("400", <<result.msg>>)
                     ELSE InternalServerError
        \* SpecificationExtractionResponse: reasoning is Optional[str]
        ELSE IF result.reasoning.t \notin {"None", "null", "str"}
            THEN InternalServerError
        ELSE Ok([specification_text |-> result.specification_text,
                 table_rows |-> result.table_rows,
                 used_fallback |-> result.used_fallback,
                 raw_model_output |-> IF result.raw_model_output.t = "reply"
                                          THEN JStr(response.v.response)
                                          ELSE NoneV,
                 reasoning |-> result.reasoning])

-----------------------------------------------------------------------------
(* Inputs of the HTTP API.                                                 *)

JsonType == <<"application/", "json">>
T_hi == <<" ", "h", "i", " ">>

ErrorExchanges ==
    {Unreachable(<<"timed out">>),
     Unreachable(<<"connection refused">>),
     HttpResponse("500", JsonType, <<"b", "o", "o", "m">>, InvalidJson),
     HttpResponse("404", JsonType, <<"n", "o", " ", "m", "o", "d", "e", "l">>,
                  InvalidJson),
     HttpResponse("200", <<"text/", "html">>, <<"<", "p", ">">>, InvalidJson),
     HttpResponse("200", JsonType, <<"o", "o", "p", "s">>, InvalidJson)}

ChatData ==
    {JDict([message |-> JDict([content |-> JStr(T_hi)])]),
     JDict([message |-> JDict([content |-> JStr(<<" ">>)])]),
     JDict([message |-> JDict([text |-> JStr(<<"t">>)])]),
     JDict([message |-> JDict([content |-> JStr(<<>>), text |-> JStr(<<"t">>)])]),
     JDict([message |-> JDict([content |-> JList(<<JStr(<<"a">>), JNum(1)>>)])]),
     JDict([message |-> JDict([content |-> JStr(<<"c">>)]),
            response |-> JStr(<<"r">>)]),
     JDict([message |-> JStr(<<"m">>)]),
     JDict([response |-> JStr(<<" ", "r">>)]),
     JDict([reply |-> JStr(<<"p">>)]),
     JDict([error |-> JStr(<<"e">>)]),
     JDict(<<>>),
     JList(<<JDict([response |-> JStr(<<"a">>)]), JDict([response |-> JStr(<<"b">>)])>>),
     JNum(5)}

ChatExchanges ==
    ErrorExchanges \cup {HttpResponse("200", JsonType, <<>>, d) : d \in ChatData}

ChatPayloads ==
    {[message |-> <<"h", "i">>, history |-> h] :
        h \in {<<>>, <<[role |-> "system", content |-> <<" ">>]>>}}

GenerateData ==
    {JDict([response |-> JStr(json_dumps(v))]) : v \in ReplyValues}
    \cup {JDict([response |-> JStr(<<" ">>)]),
          JDict([response |-> JStr(<<"n", "o">>)]),
          JDict([error |-> JStr(<<"e">>)]),
          JDict([response |-> JNum(5)])}

GenerateExchanges ==
    ErrorExchanges \cup {HttpResponse("200", JsonType, <<>>, d) : d \in GenerateData}

ExtractPayloads ==
    {[text |-> text, prefer_model |-> prefer_model] :
        text \in {L_ws, L_spec \o <<"\n">> \o L_row}, prefer_model \in BOOLEAN}

-----------------------------------------------------------------------------
(* The HTTP API as a state machine: each request is answered by its        *)
(* handler, given what the runtime does during it, and the answer is       *)
(* recorded; api_log is the history of requests answered so far.           *)

\* requests answered in one history
MaxRuns == 2

Run(endpoint, request, upstream, response) ==
    [endpoint |-> endpoint, request |-> request, upstream |-> upstream,
     response |-> response]

InitApi ==
    /\ api_log = <<>>
    /\ ExtractorIdle /\ HealthIdle /\ UploadIdle /\ RestIdle

PostChat ==
    /\ Len(api_log) < MaxRuns
    /\ \E payload \in ChatPayloads, up \in ChatExchanges :
         api_log' = Append(api_log, Run("routes_chat", payload, up,
                                        routes_chat(payload, up)))
    /\ UNCHANGED <<enable_fallback, ex_pc, ex_call, ex_ret, health_run, upload_run,
                 rest_vars>>

PostApiChat ==
    /\ Len(api_log) < MaxRuns
    /\ \E request \in ChatPayloads, up \in ChatExchanges :
         api_log' = Append(api_log, Run("main_chat", request, up,
                                        main_chat(request, up)))
    /\ UNCHANGED <<enable_fallback, ex_pc, ex_call, ex_ret, health_run, upload_run,
                 rest_vars>>

PostSpecificationExtract ==
    /\ Len(api_log) < MaxRuns
    /\ \E payload \in ExtractPayloads, up \in GenerateExchanges :
         api_log' = Append(api_log, Run("routes_extract_specification", payload, up,
                                        routes_extract_specification(payload, up)))
    /\ UNCHANGED <<enable_fallback, ex_pc, ex_call, ex_ret, health_run, upload_run,
                 rest_vars>>

\* (the upload endpoint joins this history below, where SpecApi is defined)

-----------------------------------------------------------------------------
(* Claims about the HTTP API (checked under SpecApi).                      *)

\* the runtime answered with status 200 and a JSON object
AnsweredWithObject(up) ==
    /\ up.t = "http"
    /\ up.status = "200"
    /\ contains(up.content_type, <<"json">>)
    /\ up.data.t = "dict"

\* the reply text C6 describes: message.content when present, otherwise
\* message.text; a list of parts joined with line breaks; failing that the
\* top-level response or reply
C6_ReplyText(data) ==
    LET message == Get(data, "message")
        content == IF message.t # "dict" THEN NoneV
                   ELSE IF "content" \in DOMAIN message.f THEN message.f["content"]
                   ELSE Get(message, "text")
    IN  IF content.t = "str" THEN content.s
        ELSE IF content.t = "list"
            THEN join(<<"\n">>, [i \in 1..Len(content.l) |-> PyStr(content.l[i])])
        ELSE PyStr(Or(Or(Get(data, "response"), Get(data, "reply")), JStr(<<>>)))

\* C6: whenever the runtime answers a chat exchange of the synchronous
\* client with a JSON object, POST /chat answers 200 and its reply is the
\* reply text of that object (message.content first, then message.text,
\* then response or reply), stripped; in particular for
\* {"message": {"content": t}} the reply is t stripped.
C6_ChatReplyIsMessageContent ==
    \A i \in 1..Len(api_log) :
        (api_log[i].endpoint = "routes_chat"
            /\ AnsweredWithObject(api_log[i].upstream))
        => /\ api_log[i].response.status = "200"
           /\ api_log[i].response.body.reply
                  = strip(C6_ReplyText(api_log[i].upstream.data))

\* two exchanges that both failed and differ at most in the error status,
\* the error body or the text of the exception; two uploads differ at most
\* in the text of the exception when only the address of the stream differs
DifferOnlyInErrorText(u1, u2) ==
    /\ u1.t = u2.t
    /\ \/ u1.t \in {"unreachable", "heap"}
       \/ u1.status # "200" /\ u2.status # "200"
                            /\ u1.content_type = u2.content_type

\* C7: two requests to the same endpoint with the same payload, whose
\* exchanges with the runtime failed and differ only in the error status,
\* the error body or the exception text, get the same answer: the same
\* status and the same body.
C7_ErrorDetailIndependentOfExceptionText ==
    \A i, j \in 1..Len(api_log) :
        (/\ api_log[i].endpoint = api_log[j].endpoint
         /\ api_log[i].request = api_log[j].request
         /\ DifferOnlyInErrorText(api_log[i].upstream, api_log[j].upstream))
        => /\ api_log[i].response.status = api_log[j].response.status
           /\ api_log[i].response.body = api_log[j].response.body

-----------------------------------------------------------------------------
(* GET /api/health of app.main.                                            *)

\* name = item.get("model") or item.get("name")
entry_name_model_first(item) == Or(Get(item, "model"), Get(item, "name"))

\* name = item.get("name") or item.get("model")
entry_name(item) == Or(Get(item, "name"), Get(item, "model"))

\* name == client.model, for a JSON value and the configured model name
name_equals(name, model) == name.t = "str" /\ name.s = model

\* app.main: health(), for the configured client.model and what the tag
\* listing exchange does
main_health(model, up) ==
    LET tags == list_models(up)
        Answer(model_available) ==
            Ok([status |-> "ok", model |-> model, ollama |-> ollama_base_url,
                model_available |-> model_available])
    IN  IF tags.kind = "raise"
            \* except httpx.HTTPError; HTTPStatusError is a subclass
            THEN IF tags.exc \in {"HTTPError", "HTTPStatusError"}
                     THEN Answer(FALSE)
                     ELSE InternalServerError
        ELSE LET models == IF tags.v.t # "dict" THEN JList(<<>>)
                           ELSE IF "models" \in DOMAIN tags.v.f
                               THEN tags.v.f["models"]
                           ELSE JList(<<>>)
             IN  \* for item in models: a TypeError when models cannot be
                 \* iterated, an AttributeError at an item without .get
                 IF models.t \in {"null", "None", "num"} THEN InternalServerError
                 ELSE IF models.t # "list"
                     THEN IF Falsy(models) THEN Answer(FALSE)
                          ELSE InternalServerError
                 ELSE LET items == models.l
                          found == {i \in 1..Len(items) :
                                       /\ items[i].t = "dict"
                                       /\ name_equals(entry_name(items[i]), model)}
                          broken == {i \in 1..Len(items) : items[i].t # "dict"}
                      IN  IF broken # {} /\ (found = {} \/ Min(broken) < Min(found))
                              THEN InternalServerError
                              ELSE Answer(found # {})

\* Inputs: the configured model and the tag listings of the runtime.
M_qwen == <<"qwen2.5:1.5b">>
M_llama == <<"llama3">>
ConfiguredModels == {M_qwen, M_llama}

\* entries of one tag listing
MaxModels == 2

Absent == NoneV
TagEntry(name, model) ==
    JDict([k \in (IF name.t = "None" THEN {} ELSE {"name"})
                    \cup (IF model.t = "None" THEN {} ELSE {"model"}) |->
              IF k = "name" THEN name ELSE model])

TagEntries ==
    {TagEntry(name, model) :
        name \in {Absent, JNull, JStr(<<>>), JStr(M_qwen), JStr(M_llama)},
        model \in {Absent, JStr(M_qwen), JStr(M_llama)}}
    \cup {JStr(M_qwen)}

TagData ==
    {JDict([models |-> JList(items)]) :
        items \in UNION {[1..n -> TagEntries] : n \in 0..MaxModels}}
    \cup {JDict(<<>>), JDict([models |-> JNull]), JDict([models |-> JDict(<<>>)]),
          JList(<<JStr(M_qwen)>>)}

TagExchanges ==
    ErrorExchanges \cup {HttpResponse("200", JsonType, <<>>, d) : d \in TagData}

InitHealth ==
    /\ health_run = NoCall
    /\ ExtractorIdle /\ ApiIdle /\ UploadIdle /\ RestIdle

GetHealth ==
    /\ health_run.t = "no_call"
    /\ \E model \in ConfiguredModels, up \in TagExchanges :
         health_run' = [t |-> "run", model |-> model, upstream |-> up,
                        response |-> main_health(model, up)]
    /\ UNCHANGED <<enable_fallback, ex_pc, ex_call, ex_ret, api_log, upload_run,
                 rest_vars>>

HealthAnswered ==
    /\ health_run.t = "run"
    /\ health_run' = NoCall
    /\ UNCHANGED <<enable_fallback, ex_pc, ex_call, ex_ret, api_log, upload_run,
                 rest_vars>>

NextHealth == GetHealth \/ HealthAnswered

SpecHealth == InitHealth /\ [][NextHealth]_vars

-----------------------------------------------------------------------------
(* Claims about GET /api/health (checked under SpecHealth).                *)

\* the tag listing failed with an HTTP error: no connection, or an error
\* status
ListingFailed(up) == up.t = "unreachable" \/ up.status # "200"

\* the entries of a listing that succeeded with {"models": [...]}
ListedEntries(up) ==
    IF /\ up.t = "http" /\ up.status = "200"
       /\ up.data.t = "dict"
       /\ "models" \in DOMAIN up.data.f
       /\ up.data.f["models"].t = "list"
        THEN {up.data.f["models"].l[i] : i \in 1..Len(up.data.f["models"].l)}
        ELSE {}

HealthOk(run) == run.response.status = "200" /\ run.response.body.status = "ok"

-----------------------------------------------------------------------------
(* Document ingestion of app.document_parser.  The guillemets are the      *)
(* tokens "<<" and ">>", the numero sign is the token "No".                *)

\* Block(type="paragraph", text=text): rows is None, read as [] everywhere
Paragraph(text) == [type |-> "paragraph", text |-> text, rows |-> <<>>]
\* Block(type="table", text="", rows=rows)
Table(rows) == [type |-> "table", text |-> <<>>, rows |-> rows]

\* str.split(): the maximal runs of characters that are not whitespace
RECURSIVE words(_)
words(s) ==
    LET solid == {i \in 1..Len(s) : s[i] \notin WS}
    IN  IF solid = {} THEN <<>>
        ELSE LET first == Min(solid)
                 gaps == {i \in first..Len(s) : s[i] \in WS}
             IN  IF gaps = {} THEN <<SubSeq(s, first, Len(s))>>
                 ELSE <<SubSeq(s, first, Min(gaps) - 1)>>
                          \o words(SubSeq(s, Min(gaps), Len(s)))

\* re.sub(r"[chars]{least,}", repl, s): every maximal run of at least
\* `least` characters of chars is replaced by repl
RECURSIVE re_sub_runs(_, _, _, _)
re_sub_runs(s, chars, least, repl) ==
    IF s = <<>> THEN <<>>
    ELSE IF s[1] \notin chars
        THEN LET hit == {i \in 1..Len(s) : s[i] \in chars}
                 kept == IF hit = {} THEN Len(s) ELSE Min(hit) - 1
             IN  SubSeq(s, 1, kept)
                     \o re_sub_runs(SubSeq(s, kept + 1, Len(s)), chars, least, repl)
    ELSE LET stop == {i \in 1..Len(s) : s[i] \notin chars}
             run == IF stop = {} THEN Len(s) ELSE Min(stop) - 1
         IN  (IF run >= least THEN repl ELSE SubSeq(s, 1, run))
                 \o re_sub_runs(SubSeq(s, run + 1, Len(s)), chars, least, repl)

\* document_parser._clean_text_noise(text)
_clean_text_noise(text) ==
    LET no_quotes == re_sub_runs(text, {"<<", ">>"}, 1, <<>>)
        no_underscores == re_sub_runs(no_quotes, {"_"}, 2, <<" ">>)
        no_dashes == re_sub_runs(no_underscores, {"-"}, 3, <<" ">>)
        no_dots == re_sub_runs(no_dashes, {"."}, 3, <<" ">>)
        one_space == re_sub_runs(no_dots, WS, 2, <<" ">>)
    IN  strip(one_space)

\* _flush_table appending a table block whether or not a table is pending
_flush_table_always(blocks, current_table) ==
    Append(blocks, Table(current_table))

\* _flush_table(): the pending table, if any, becomes a table block
_flush_table(blocks, current_table) ==
    IF current_table # <<>> THEN Append(blocks, Table(current_table)) ELSE blocks

\* the loop of _parse_plain_text over the stripped lines
RECURSIVE parse_lines(_, _, _)
parse_lines(lines, blocks, current_table) ==
    IF lines = <<>> THEN _flush_table(blocks, current_table)
    ELSE LET line == lines[1]
             clean_line == _clean_text_noise(line)
             columns == StripNonBlank(split(line, "|"))
         IN  IF clean_line = <<>>
                 THEN parse_lines(Tail(lines), _flush_table(blocks, current_table), <<>>)
             ELSE IF (\E i \in 1..Len(line) : line[i] = "|") /\ columns # <<>>
                 THEN parse_lines(Tail(lines), blocks, Append(current_table, columns))
             ELSE parse_lines(Tail(lines),
                              Append(_flush_table(blocks, current_table),
                                     Paragraph(clean_line)),
                              <<>>)

\* document_parser._parse_plain_text(content); content.text is the payload
\* decoded as UTF-8 with undecodable bytes dropped
_parse_plain_text(content) ==
    LET text == content.text
        raw_lines == splitlines(text)
        lines == [i \in 1..Len(raw_lines) |-> strip(raw_lines[i])]
    IN  parse_lines(lines, <<>>, <<>>)

\* _table_to_rows keeping the rows without text
_table_to_rows_unfiltered(table) ==
    LET cell_text(cell) == join(<<" ">>, StripNonBlank(cell))
        cells(row) == [i \in 1..Len(row) |-> cell_text(row[i])]
    IN  [i \in 1..Len(table.rows) |-> cells(table.rows[i])]

\* document_parser._table_to_rows(table): a cell is the list of the texts
\* of its paragraphs
_table_to_rows(table) ==
    LET cell_text(cell) == join(<<" ">>, StripNonBlank(cell))
        cells(row) == [i \in 1..Len(row) |-> cell_text(row[i])]
        all_rows == [i \in 1..Len(table.rows) |-> cells(table.rows[i])]
        HasText(row) == \E i \in 1..Len(row) : row[i] # <<>>
    IN  SelectSeq(all_rows, HasText)

\* what python-docx's Document(BytesIO(content)) raises for a payload it does
\* not open: a payload that is no zip archive (BadZipFile), a package
\* without a main document part (KeyError), or a package whose main part is
\* no Word document (ValueError, whose text names the stream object, at its
\* address `at`, and the content type found)
Document_error(content, at) ==
    IF content.open = "ValueError"
        THEN Raise("ValueError",
                   <<"file '<_io.BytesIO object at ", at,
                     ">' is not a Word file, content type is '",
                     content.main_type, "'">>)
    ELSE IF content.open = "KeyError"
        THEN Raise("KeyError", <<"no relationship of type 'officeDocument'">>)
    ELSE Raise("BadZipFile", <<"File is not a zip file">>)

\* document_parser._parse_docx(content): content.open is what python-docx's
\* Document() does with the payload ("ok", or the exception it raises), and
\* content.body the children of the document body: paragraphs <p>, tables
\* <tbl> and other elements, which _iter_docx_blocks passes over
_parse_docx(content, at) ==
    IF content.open # "ok" THEN Document_error(content, at)
    ELSE LET BlocksOf(child) ==
                 IF child.tag = "p"
                     THEN LET raw_text == join(<<" ">>, words(child.text))
                          IN  <<Paragraph(_clean_text_noise(raw_text))>>
                 ELSE IF child.tag = "tbl"
                     THEN LET rows == _table_to_rows(child)
                          IN  IF rows # <<>> THEN <<Table(rows)>> ELSE <<>>
                 ELSE <<>>
         IN  Return(ConcatAll([i \in 1..Len(content.body) |->
                                  BlocksOf(content.body[i])]))

-----------------------------------------------------------------------------
(* The heuristic locator of app.document_parser.                           *)

\* "спецификац" is SpecPattern
P_specifikaciya_No ==
    <<"s", "p", "e", "c", "i", "f", "i", "k", "a", "c", "i", "ya", " ", "No">>
P_prilozhenie_No == <<"p", "r", "i", "l", "o", "zh", "e", "n", "i", "e", " ", "No">>
P_prilozhenie_k_dogovoru ==
    <<"p", "r", "i", "l", "o", "zh", "e", "n", "i", "e", " ", "k", " ",
      "d", "o", "g", "o", "v", "o", "r", "u">>
SPEC_PATTERNS ==
    <<SpecPattern, P_specifikaciya_No, P_prilozhenie_No, P_prilozhenie_k_dogovoru>>

\* "общая цена"
END_PATTERNS_price == << <<"o", "b", "shch", "a", "ya", " ", "c", "e", "n", "a">> >>
\* "общая сумма"
END_PATTERNS == << <<"o", "b", "shch", "a", "ya", " ", "s", "u", "m", "m", "a">> >>

\* "наименован", "ед.", "кол", "цена", "сумм"
keywords ==
    << <<"n", "a", "i", "m", "e", "n", "o", "v", "a", "n">>,
       <<"e", "d", ".">>,
       <<"k", "o", "l">>,
       <<"c", "e", "n", "a">>,
       <<"s", "u", "m", "m">> >>

\* "Приложение"
Prilozhenie == <<"P", "r", "i", "l", "o", "zh", "e", "n", "i", "e">>

\* any(pattern in text for pattern in patterns)
contains_any(text, patterns) ==
    \E i \in 1..Len(patterns) : contains(text, patterns[i])

\* len(text.split()) > 8
MaxHeadingWords == 8
\* range(idx + 1, min(idx + 6, len(blocks)))
LookAheadEnd == 6
\* len(normalized) <= 80, len(normalized) <= 120
CapsHeadingLength == 80
ColonHeadingLength == 120

startswith(s, prefix) ==
    Len(s) >= Len(prefix) /\ SubSeq(s, 1, Len(prefix)) = prefix

\* document_parser._looks_like_heading(text)
_looks_like_heading(text) ==
    LET normalized == strip(text)
    IN  /\ normalized # <<>>
        /\ \/ Len(normalized) <= CapsHeadingLength /\ normalized = upper(normalized)
           \/ normalized[Len(normalized)] = ":" /\ Len(normalized) <= ColonHeadingLength
           \/ startswith(normalized, Prilozhenie)

\* the heading candidates of _find_spec_heading, as block indices
heading_candidates(blocks) ==
    {idx \in 0..(Len(blocks) - 1) :
        LET block == blocks[idx + 1]
            text == lower(block.text)
        IN  /\ block.type = "paragraph"
            /\ ~(Len(words(text)) > MaxHeadingWords /\ contains(text, SpecPattern))
            /\ contains_any(text, SPEC_PATTERNS)
            /\ \E look_ahead \in (idx + 1)..(Min({idx + LookAheadEnd, Len(blocks)}) - 1) :
                   blocks[look_ahead + 1].type = "table"}

\* candidates[0]
first_candidate(candidates) == Min(candidates)

\* candidates[-1]: the candidates are appended in block order
last_candidate(candidates) == Max(candidates)

\* document_parser._find_spec_heading(blocks); None is -1
_find_spec_heading(blocks) ==
    LET candidates == heading_candidates(blocks)
    IN  IF candidates = {} THEN -1 ELSE last_candidate(candidates)

TableRegion(index, start_index, end_index, block) ==
    [index |-> index, start_index |-> start_index, end_index |-> end_index,
     block |-> block]

\* the loop going on after a table without a keyword that follows an
\* included table
RECURSIVE scan_blocks_past_other_tables(_, _, _)
scan_blocks_past_other_tables(blocks, idx, st) ==
    IF idx >= Len(blocks) THEN st
    ELSE LET block == blocks[idx + 1]
         IN  IF block.type = "paragraph"
                 THEN IF contains_any(lower(block.text), END_PATTERNS) THEN st
                      ELSE IF block.text = <<>>
                          THEN scan_blocks_past_other_tables(blocks, idx + 1, st)
                      ELSE IF st.last_table_index # -1 /\ _looks_like_heading(block.text)
                          THEN st
                      ELSE scan_blocks_past_other_tables(blocks, idx + 1, st)
             ELSE LET flat_text ==
                          lower(join(<<" ">>, [i \in 1..Len(block.rows) |->
                                                  join(<<" ">>, block.rows[i])]))
                  IN  IF contains_any(flat_text, keywords)
                          THEN scan_blocks_past_other_tables(blocks, idx + 1,
                                   [first_table_index |->
                                        IF st.first_table_index = -1 THEN idx
                                        ELSE st.first_table_index,
                                    last_table_index |-> idx,
                                    collected_tables |->
                                        Append(st.collected_tables,
                                               TableRegion(idx, idx, idx, block))])
                      ELSE scan_blocks_past_other_tables(blocks, idx + 1, st)
\* the for loop of _locate_specification from block idx on; st holds
\* first_table_index, last_table_index (None is -1) and collected_tables
RECURSIVE scan_blocks(_, _, _)
scan_blocks(blocks, idx, st) ==
    IF idx >= Len(blocks) THEN st
    ELSE LET block == blocks[idx + 1]
         IN  IF block.type = "paragraph"
                 THEN IF contains_any(lower(block.text), END_PATTERNS) THEN st
                      ELSE IF block.text = <<>> THEN scan_blocks(blocks, idx + 1, st)
                      ELSE IF st.last_table_index # -1 /\ _looks_like_heading(block.text)
                          THEN st
                      ELSE scan_blocks(blocks, idx + 1, st)
             ELSE LET flat_text ==
                          lower(join(<<" ">>, [i \in 1..Len(block.rows) |->
                                                  join(<<" ">>, block.rows[i])]))
                  IN  IF contains_any(flat_text, keywords)
                          THEN scan_blocks(blocks, idx + 1,
                                   [first_table_index |->
                                        IF st.first_table_index = -1 THEN idx
                                        ELSE st.first_table_index,
                                    last_table_index |-> idx,
                                    collected_tables |->
                                        Append(st.collected_tables,
                                               TableRegion(idx, idx, idx, block))])
                      ELSE IF st.first_table_index # -1 THEN st
                      ELSE scan_blocks(blocks, idx + 1, st)

DefaultHeading == <<"Specifikaciya">>

\* a result returned also when the scan included no table
locate_from_without_tables(blocks, heading_index) ==
    LET st == scan_blocks(blocks, heading_index + 1,
                          [first_table_index |-> -1, last_table_index |-> -1,
                           collected_tables |-> <<>>])
        last == IF st.last_table_index = -1 THEN heading_index
                ELSE st.last_table_index
    IN  [t |-> "result",
         heading |-> IF blocks[heading_index + 1].text # <<>>
                         THEN blocks[heading_index + 1].text
                         ELSE DefaultHeading,
         start_index |-> heading_index,
         end_index |-> last,
         tables |-> st.collected_tables,
         start_block |-> blocks[heading_index + 1],
         end_block |-> blocks[last + 1]]
\* _locate_specification after the heading was found: the scan and the result
locate_from(blocks, heading_index) ==
    LET st == scan_blocks(blocks, heading_index + 1,
                          [first_table_index |-> -1, last_table_index |-> -1,
                           collected_tables |-> <<>>])
    IN  IF st.first_table_index = -1 \/ st.last_table_index = -1 THEN NoneV
        ELSE [t |-> "result",
              heading |-> IF blocks[heading_index + 1].text # <<>>
                              THEN blocks[heading_index + 1].text
                              ELSE DefaultHeading,
              start_index |-> heading_index,
              end_index |-> st.last_table_index,
              tables |-> st.collected_tables,
              start_block |-> blocks[heading_index + 1],
              end_block |-> blocks[st.last_table_index + 1]]

\* document_parser._locate_specification(blocks)
_locate_specification(blocks) ==
    LET heading_index == _find_spec_heading(blocks)
    IN  IF heading_index = -1 THEN NoneV ELSE locate_from(blocks, heading_index)

\* Path(filename).suffix
suffix(filename) ==
    LET slashes == {i \in 1..Len(filename) : filename[i] = "/"}
        name == IF slashes = {} THEN filename
                ELSE SubSeq(filename, Max(slashes) + 1, Len(filename))
        dots == {i \in 1..Len(name) : name[i] = "."}
    IN  IF dots # {} /\ Max(dots) > 1 /\ Max(dots) < Len(name)
            THEN SubSeq(name, Max(dots), Len(name))
            ELSE <<>>

Unsupported == <<"Podderzhivayutsya tol'ko fajly DOCX i TXT">>
NotFound == <<"V dokumente ne najden razdel 'Specifikaciya' s tablicami">>
CannotProcess == <<"Ne udalos' obrabotat' dokument">>

\* what a call of document_parser.extract_specification did: its result or
\* exception, the parser it ran ("none" when it ran no parser) and the blocks
\* that parser returned
Extraction(outcome, parser, blocks) ==
    [outcome |-> outcome, parser |-> parser, blocks |-> blocks]

\* document_parser.extract_specification(filename, content); at is the
\* address the BytesIO stream of _parse_docx is allocated at
parser_extract_specification(filename, content, at) ==
    LET Sought(parser, blocks, result) ==
            IF result.t = "None"
                THEN Extraction(Raise("ValueError", NotFound), parser, blocks)
                ELSE Extraction(Return(result), parser, blocks)
        Read(parser, parsed) ==
            IF parsed.kind = "raise" THEN Extraction(parsed, parser, <<>>)
            ELSE Sought(parser, parsed.v, _locate_specification(parsed.v))
        BySuffix(ext) ==
            IF ext = <<".", "d", "o", "c", "x">>
                THEN Read("_parse_docx", _parse_docx(content, at))
            ELSE IF ext \in {<<".", "t", "x", "t">>, <<".", "m", "d">>}
                THEN Read("_parse_plain_text", Return(_parse_plain_text(content)))
            ELSE Extraction(Raise("UnsupportedDocumentError", Unsupported), "none",
                            <<>>)
    IN  BySuffix(lower(suffix(filename)))

\* start_text[:200]
PreviewLimit == 200
head(s, n) == SubSeq(s, 1, Min({n, Len(s)}))

\* " | "
CellSeparator == <<" ", "|", " ">>
\* "Таблица", "СПЕЦИФИКАЦИЯ"
Tablica == <<"T", "a", "b", "l", "i", "c", "a">>
SPECIFIKACIYA == <<"S", "P", "E", "C", "I", "F", "I", "K", "A", "C", "I", "YA">>

\* main._make_anchor(index, block_type, preview)
_make_anchor(index, block_type, preview) ==
    [index |-> index, type |-> block_type, preview |-> preview]

\* main._make_table(index, rows, start_index, end_index)
_make_table(index, rows, start_index, end_index) ==
    LET preview == IF rows # <<>> THEN join(CellSeparator, rows[1]) ELSE <<>>
        end_preview == IF rows # <<>> THEN join(CellSeparator, rows[Len(rows)])
                       ELSE preview
        column_count == IF rows = <<>> THEN 0
                        ELSE Max({Len(rows[i]) : i \in 1..Len(rows)})
        start_text == IF preview # <<>> THEN preview ELSE Tablica
        end_text == IF end_preview # <<>> THEN end_preview ELSE start_text
    IN  [index |-> index,
         row_count |-> Len(rows),
         column_count |-> column_count,
         preview |-> head(start_text, PreviewLimit),
         start_anchor |-> _make_anchor(start_index, "table",
                                       head(start_text, PreviewLimit)),
         end_anchor |-> _make_anchor(end_index, "table", head(end_text, PreviewLimit)),
         rows |-> rows]

\* main.specification after extract_specification returned result
specification_response(result) ==
    LET first_rows == IF result.tables # <<>> THEN result.tables[1].block.rows
                      ELSE <<>>
        start_preview ==
            IF result.start_block.type = "table" /\ first_rows # <<>>
                THEN join(CellSeparator, first_rows[1])
            ELSE IF result.start_block.text # <<>> THEN result.start_block.text
            ELSE SPECIFIKACIYA
        last_rows == IF result.tables # <<>>
                         THEN result.tables[Len(result.tables)].block.rows
                         ELSE <<>>
        last_row == IF last_rows = <<>> THEN <<>>
                    ELSE IF last_rows[Len(last_rows)] # <<>>
                        THEN last_rows[Len(last_rows)]
                    ELSE last_rows[1]
        end_preview ==
            IF result.end_block.type = "table" /\ last_row # <<>>
                THEN join(CellSeparator, last_row)
                ELSE result.end_block.text
        default_start == IF result.start_block.type = "table" THEN Tablica ELSE <<>>
        start_text == head(IF start_preview # <<>> THEN start_preview
                           ELSE default_start, PreviewLimit)
        default_end == IF result.end_block.type = "table" THEN Tablica ELSE <<>>
        end_text == head(IF end_preview # <<>> THEN end_preview
                         ELSE IF start_preview # <<>> THEN start_preview
                         ELSE default_end, PreviewLimit)
    IN  [heading |-> result.heading,
         start_anchor |-> _make_anchor(result.start_index, result.start_block.type,
                                       start_text),
         end_anchor |-> _make_anchor(result.end_index, result.end_block.type,
                                     IF end_text # <<>> THEN end_text ELSE start_text),
         tables |-> [i \in 1..Len(result.tables) |->
                        _make_table(result.tables[i].index,
                                    result.tables[i].block.rows,
                                    result.tables[i].start_index,
                                    result.tables[i].end_index)]]

\* app.main: POST /api/specification, specification(file)
main_specification(filename, content, at) ==
    LET Answer(outcome) ==
            IF outcome.kind = "raise"
                THEN IF outcome.exc = "UnsupportedDocumentError"
                         THEN HTTPException("415", outcome.msg)
                     ELSE IF outcome.exc = "ValueError"
                         THEN HTTPException("404", outcome.msg)
                     ELSE HTTPException("400", CannotProcess)
                ELSE Ok(specification_response(outcome.v))
    IN  Answer(parser_extract_specification(filename, content, at).outcome)

-----------------------------------------------------------------------------
(* Inputs of POST /api/specification: file names and payloads.  A payload  *)
(* is described by what python-docx makes of it (open, main_type, body)    *)
(* and by the text its bytes decode to.                                    *)

Package(body) ==
    [open |-> "ok", main_type |-> "document.main+xml", body |-> body,
     text |-> <<"P", "K">>]
BrokenPackage(open, main_type) ==
    [open |-> open, main_type |-> main_type, body |-> <<>>, text |-> <<"P", "K">>]
TextFile(text) ==
    [open |-> "BadZipFile", main_type |-> "", body |-> <<>>, text |-> text]

DocxP(text) == [tag |-> "p", text |-> text, rows |-> <<>>]
DocxTbl(rows) == [tag |-> "tbl", text |-> <<>>, rows |-> rows]
DocxSectPr == [tag |-> "sectPr", text |-> <<>>, rows |-> <<>>]

\* «Спецификация»
X_spec == <<"<<", "S", "p", "e", "c", "i", "f", "i", "k", "a", "c", "i", "ya", ">>">>
\* Приложение № 1
X_app == <<"P", "r", "i", "l", "o", "zh", "e", "n", "i", "e", " ", "No", " ", "1">>
\* Общая сумма: 4700
X_total ==
    <<"O", "b", "shch", "a", "ya", " ", " ", "s", "u", "m", "m", "a", ":", " ",
      "4", "7", "0", "0">>
\* текст
X_text == <<"t", "e", "k", "s", "t">>
\* ИТОГО
X_caps == <<"I", "T", "O", "G", "O">>
\* к спецификации: a a a a a a a a (nine words and more)
X_long ==
    <<"k", " ", "s", "p", "e", "c", "i", "f", "i", "k", "a", "c", "i", "i", ":">>
        \o [i \in 1..16 |-> IF i % 2 = 1 THEN " " ELSE "a"]
\* приложение к договору, in a sentence
X_appk ==
    <<"s", "m", ".", " ", "p", "r", "i", "l", "o", "zh", "e", "n", "i", "e", " ", "k",
      " ", "d", "o", "g", "o", "v", "o", "r", "u">>

\* Общая цена: 10
X_price ==
    <<"O", "b", "shch", "a", "ya", " ", "c", "e", "n", "a", ":", " ", "1", "0">>

Cell(text) == <<text>>
\* Кол | Цена / Стул | 10
Y_goods ==
    DocxTbl(<< <<Cell(<<"K", "o", "l">>), Cell(<<"C", "e", "n", "a">>)>>,
               <<Cell(<<"S", "t", "u", "l">>), Cell(<<" ", "1", "0">>)>>,
               <<Cell(<<" ">>), <<>>>> >>)
Y_other == DocxTbl(<< <<Cell(<<"a">>), <<<<"b">>, <<>>, <<"c">>>>>> >>)
Y_blank == DocxTbl(<< <<Cell(<<" ">>), Cell(<<>>)>> >>)

\* children of a document body
MaxBlocks == 4
\* paragraphs between a heading and the first table after it
MaxGap == 6

DocxChildren == {DocxP(X_spec), DocxP(X_app), DocxP(X_total), DocxP(X_text),
                 Y_goods, Y_other}

DocxBodies == UNION {[1..n -> DocxChildren] : n \in 0..MaxBlocks}

GapBody(heading, filler, gap) ==
    <<DocxP(heading)>> \o [i \in 1..gap |-> DocxP(filler)] \o <<Y_goods, DocxSectPr>>

MoreBodies ==
    {GapBody(h, f, gap) : h \in {X_spec, X_long, X_appk},
                          f \in {X_text, <<>>}, gap \in 0..MaxGap}
    \cup {<<DocxP(X_spec), Y_goods, DocxP(p), Y_goods, DocxSectPr>> :
              p \in {X_caps, <<>>, <<"t", ":">>, X_long}}
    \cup {<<DocxP(X_spec), Y_blank, Y_goods>>, <<Y_blank>>,
          <<DocxP(X_long), Y_goods>>}

\* a goods table, a paragraph naming a total, and a goods table after it
TotalBodies ==
    {<<DocxP(X_spec), Y_goods, DocxP(t), Y_goods, DocxSectPr>> :
         t \in {X_total, X_price}}
    \cup {<<DocxP(X_spec), Y_goods, DocxP(X_text), DocxP(X_price), DocxP(X_total),
            Y_goods>>,
          <<DocxP(X_spec), DocxP(X_total), Y_goods>>}

\* text of length n that starts with prefix
Padded(prefix, n) == prefix \o [i \in 1..(n - Len(prefix)) |-> "a"]
\* lengths around the limit of a preview
PreviewLengths == {PreviewLimit - 1, PreviewLimit, PreviewLimit + 1, PreviewLimit + 50}
\* a long heading and a goods table with long first and last rows
LongBodies ==
    {<<DocxP(Padded(X_spec \o <<" ">>, n)),
       DocxTbl(<< <<Cell(<<"K", "o", "l">>), Cell(Padded(<<>>, n))>>,
                  <<Cell(Padded(<<"1", "0", "0">>, n)), Cell(<<"2">>)>> >>)>> :
         n \in PreviewLengths}

\* lines of a text file
TextLines ==
    {X_spec, <<"K", "o", "l", " ", "|", " ", "C", "e", "n", "a">>,
     <<"S", "t", "u", "l", "|", "1", "0", "|">>, <<" ">>, X_total,
     <<"_", "_", "|">>}
MaxTextLines == 3
TextFiles ==
    {TextFile(join(<<"\n">>, lines)) :
        lines \in UNION {[1..n -> TextLines] : n \in 0..MaxTextLines}}

F_docx == <<"r", ".", "d", "o", "c", "x">>
F_txt == <<"r", ".", "t", "x", "t">>
Filenames ==
    {F_docx, F_txt,
     <<"r", ".", "D", "O", "C", "X">>, <<"r", ".", "m", "d">>,
     <<"r", ".", "p", "d", "f">>, <<"r", ".", "d", "o", "c">>, <<"r">>, <<>>,
     <<".", "d", "o", "c", "x">>, <<"r", ".">>, <<"d", ".", "t", "x", "t", "/", "r">>,
     <<"r", ".", "d", "o", "c", "x", ".", "b", "a", "k">>}

SomePayloads ==
    {Package(<<DocxP(X_spec), Y_goods>>), Package(<<DocxP(X_text)>>),
     BrokenPackage("ValueError", "template.main+xml"),
     BrokenPackage("ValueError", "document.macroEnabled.main+xml"),
     BrokenPackage("KeyError", ""),
     TextFile(X_spec \o <<"\n", "K", "o", "l", "|", "1">>),
     TextFile(<<>>)}

Uploads ==
    (Filenames \X SomePayloads)
    \cup ({F_docx} \X {Package(body) :
                          body \in DocxBodies \cup MoreBodies \cup TotalBodies
                                       \cup LongBodies})
    \cup ({F_txt} \X TextFiles)

\* addresses the stream object of one request may be allocated at
Addresses == {"0x7f01", "0x7f02"}

InitUpload ==
    /\ upload_run = NoCall
    /\ ExtractorIdle /\ ApiIdle /\ HealthIdle /\ RestIdle

PostApiSpecification ==
    /\ upload_run.t = "no_call"
    /\ \E upload \in Uploads, at \in Addresses :
         upload_run' = [t |-> "run", filename |-> upload[1], content |-> upload[2],
                        at |-> at,
                        extraction |-> parser_extract_specification(upload[1],
                                                                    upload[2], at),
                        response |-> main_specification(upload[1], upload[2], at)]
    /\ UNCHANGED <<enable_fallback, ex_pc, ex_call, ex_ret, api_log, health_run,
                 rest_vars>>

SpecificationAnswered ==
    /\ upload_run.t = "run"
    /\ upload_run' = NoCall
    /\ UNCHANGED <<enable_fallback, ex_pc, ex_call, ex_ret, api_log, health_run,
                 rest_vars>>

NextUpload == PostApiSpecification \/ SpecificationAnswered

SpecUpload == InitUpload /\ [][NextUpload]_vars

-----------------------------------------------------------------------------
(* Claims about POST /api/specification and the heuristic locator          *)
(* (checked under SpecUpload).                                             *)

Uploaded == upload_run.t = "run"

SupportedExtension(filename) ==
    lower(suffix(filename))
        \in {<<".", "d", "o", "c", "x">>, <<".", "t", "x", "t">>, <<".", "m", "d">>}

\* parsing the payload fails: the file is read as DOCX and python-docx does
\* not open it (plain-text parsing accepts every payload)
ParsingFails(filename, content) ==
    /\ lower(suffix(filename)) = <<".", "d", "o", "c", "x">>
    /\ content.open # "ok"

\* C9: an upload whose file name has no .docx, .txt or .md extension is
\* answered 415 and no parser runs; a payload that is parsed but holds no
\* specification section with tables is answered 404; every other failure
\* to parse is answered 400 with the fixed generic message; 200 is answered
\* only when the locator returned a result.
C9_UploadStatusByOutcome ==
    Uploaded =>
        LET filename == upload_run.filename
            content == upload_run.content
            extraction == upload_run.extraction
            response == upload_run.response
        IN  /\ ~SupportedExtension(filename)
                   => response.status = "415" /\ extraction.parser = "none"
            /\ (/\ SupportedExtension(filename)
                /\ ~ParsingFails(filename, content)
                /\ _locate_specification(extraction.blocks).t = "None")
                   => response.status = "404"
            /\ (SupportedExtension(filename) /\ ParsingFails(filename, content))
                   => /\ response.status = "400"
                      /\ response.body.detail = CannotProcess
            /\ response.status = "200"
                   => /\ extraction.outcome.kind = "return"
                      /\ extraction.outcome.v = _locate_specification(extraction.blocks)

\* the payload was parsed into blocks, on which the locator ran
Located == Uploaded /\ upload_run.extraction.outcome.kind = "return"
Parsed ==
    /\ Uploaded
    /\ upload_run.extraction.parser # "none"
    /\ ~ParsingFails(upload_run.filename, upload_run.content)

\* priority of a heading: 0 with "спецификац", 1 with "приложение", else 2
C10_Priority(text) ==
    IF contains(lower(text), SpecPattern) THEN 0
    ELSE IF contains(lower(text), lower(Prilozhenie)) THEN 1
    ELSE 2

\* the candidates from which the scan includes at least one table
C10_Yielding(blocks) ==
    {h \in heading_candidates(blocks) : locate_from(blocks, h).t # "None"}

\* a is before b under ascending (priority, block_index)
C10_Before(blocks, a, b) ==
    \/ C10_Priority(blocks[a + 1].text) < C10_Priority(blocks[b + 1].text)
    \/ /\ C10_Priority(blocks[a + 1].text) = C10_Priority(blocks[b + 1].text)
       /\ a <= b

\* C10 (as stated): among the heading candidates that yield at least one
\* table the locator selects the smallest under ascending (priority,
\* block_index): whenever some candidate yields a table, a section is
\* located and it starts at that candidate.
C10_SelectsByPriorityThenIndex ==
    Parsed =>
        LET blocks == upload_run.extraction.blocks
            yielding == C10_Yielding(blocks)
        IN  yielding # {} =>
                /\ Located
                /\ upload_run.extraction.outcome.v.start_index \in yielding
                /\ \A h \in yielding :
                       C10_Before(blocks,
                                  upload_run.extraction.outcome.v.start_index, h)

\* C10 (amended): among all heading candidates the locator selects the last
\* one in document order, whatever pattern it holds: a located section
\* starts at the candidate with the greatest block index and is the section
\* the scan from that candidate gives; when there is no candidate, or the
\* scan from the last candidate includes no table, no section is located
\* (404), even if an earlier candidate yields a table.
C10_SelectsLastCandidate ==
    Parsed =>
        LET blocks == upload_run.extraction.blocks
            candidates == heading_candidates(blocks)
            last == Max(candidates)
        IN  IF candidates # {} /\ last \in C10_Yielding(blocks)
                THEN /\ Located
                     /\ upload_run.extraction.outcome.v.start_index = last
                     /\ \A c \in candidates :
                            c <= upload_run.extraction.outcome.v.start_index
                     /\ upload_run.response.status = "200"
                     /\ upload_run.response.body.start_anchor.index = last
                ELSE /\ ~Located
                     /\ upload_run.response.status = "404"

\* a "спецификация" heading before a "приложение" heading, both yielding a
\* table: the section starts at the later, "приложение" heading
C10_Witness ==
    /\ Located
    /\ LET blocks == upload_run.extraction.blocks
           start == upload_run.extraction.outcome.v.start_index
       IN  /\ C10_Priority(blocks[start + 1].text) = 1
           /\ \E h \in C10_Yielding(blocks) :
                  h < start /\ C10_Priority(blocks[h + 1].text) = 0

\* "общая цена", "общая сумма": the paragraphs the statement names
C11_TotalPhrases ==
    << <<"o", "b", "shch", "a", "ya", " ", "c", "e", "n", "a">>,
       <<"o", "b", "shch", "a", "ya", " ", "s", "u", "m", "m", "a">> >>

\* "общая сумма"
C11_Summa == << <<"o", "b", "shch", "a", "ya", " ", "s", "u", "m", "m", "a">> >>

\* the paragraphs after block `from` that hold one of the phrases
C11_Totals(blocks, from, phrases) ==
    {p \in (from + 1)..(Len(blocks) - 1) :
        /\ blocks[p + 1].type = "paragraph"
        /\ contains_any(lower(blocks[p + 1].text), phrases)}

C11_TableIndices(result) ==
    {result.tables[i].index : i \in 1..Len(result.tables)}

\* the forward scan gets as far as paragraph p: every block between the
\* first included table and p is an included table or a paragraph that does
\* not look like a heading
C11_Reached(blocks, result, p) ==
    \A i \in (result.tables[1].index + 1)..(p - 1) :
        IF blocks[i + 1].type = "table" THEN i \in C11_TableIndices(result)
        ELSE ~_looks_like_heading(blocks[i + 1].text)

-----------------------------------------------------------------------------
(* The upload endpoint in the history of the HTTP API, and the API as a    *)
(* whole.                                                                  *)

LoggedUploads ==
    {F_docx, F_txt, <<"r", ".", "p", "d", "f">>} \X SomePayloads

PostApiSpecificationLogged ==
    /\ Len(api_log) < MaxRuns
    /\ \E upload \in LoggedUploads, at \in Addresses :
         api_log' = Append(api_log,
                           Run("main_specification",
                               [filename |-> upload[1], content |-> upload[2]],
                               [t |-> "heap", at |-> at],
                               main_specification(upload[1], upload[2], at)))
    /\ UNCHANGED <<enable_fallback, ex_pc, ex_call, ex_ret, health_run, upload_run,
                 rest_vars>>

NextApi ==
    PostChat \/ PostApiChat \/ PostSpecificationExtract \/ PostApiSpecificationLogged

SpecApi == InitApi /\ [][NextApi]_vars


-----------------------------------------------------------------------------
(* The document helpers of app.document_processing and                     *)
(* app.specification_utils, called on their own.                           *)

\* the transform with the guillemets removed after the runs were replaced
processing_clean_text_noise_quotes_last(text) ==
    LET no_underscores == re_sub_runs(text, {"_"}, 2, <<" ">>)
        no_dashes == re_sub_runs(no_underscores, {"-"}, 3, <<" ">>)
        no_dots == re_sub_runs(no_dashes, {"."}, 3, <<" ">>)
        one_space == re_sub_runs(no_dots, WS, 2, <<" ">>)
        no_quotes == re_sub_runs(one_space, {"<<", ">>"}, 1, <<>>)
    IN  strip(no_quotes)
\* document_processing._clean_text_noise(text)
processing_clean_text_noise(text) ==
    LET no_quotes == re_sub_runs(text, {"<<", ">>"}, 1, <<>>)
        no_underscores == re_sub_runs(no_quotes, {"_"}, 2, <<" ">>)
        no_dashes == re_sub_runs(no_underscores, {"-"}, 3, <<" ">>)
        no_dots == re_sub_runs(no_dashes, {"."}, 3, <<" ">>)
        one_space == re_sub_runs(no_dots, WS, 2, <<" ">>)
    IN  strip(one_space)

\* characters of the texts that are cleaned
NoiseChars == {"<<", "_", "-", ".", " ", "\n", "a"}
\* length of those texts
MaxChars == 5
NoiseTexts == UNION {[1..n -> NoiseChars] : n \in 0..MaxChars}

\* a call of a helper and what it returned
LibCall(fn, arg, result) == [t |-> "call", fn |-> fn, arg |-> arg, result |-> result]

InitLibrary ==
    /\ lib_run = NoCall
    /\ ExtractorIdle /\ ApiIdle /\ HealthIdle /\ UploadIdle /\ ExportIdle
    /\ ProcessIdle

\* both modules' transform is applied to the text, once and twice
CleanTextNoise ==
    /\ lib_run = NoCall
    /\ \E text \in NoiseTexts :
         lib_run' = LibCall("_clean_text_noise", text,
                       [parser |-> _clean_text_noise(text),
                        parser_twice |-> _clean_text_noise(_clean_text_noise(text)),
                        processing |-> processing_clean_text_noise(text),
                        processing_twice |->
                            processing_clean_text_noise(
                                processing_clean_text_noise(text))])
    /\ UNCHANGED <<handler_vars, export_vars, process>>

LibReturned ==
    /\ lib_run.t = "call"
    /\ lib_run' = NoCall
    /\ UNCHANGED <<handler_vars, export_vars, process>>

Cleaned == lib_run.t = "call" /\ lib_run.fn = "_clean_text_noise"

\* C12: the noise-cleaning transform is idempotent: cleaning a cleaned text
\* gives the cleaned text again, for the transform of document_parser and
\* the one of document_processing.
C12_CleanTextNoiseIdempotent ==
    Cleaned => /\ lib_run.result.parser_twice = lib_run.result.parser
               /\ lib_run.result.processing_twice = lib_run.result.processing

\* a text that the transform changes in every one of its steps
C12_Witness ==
    /\ Cleaned
    /\ lib_run.result.processing # lib_run.arg
    /\ \E i \in 1..Len(lib_run.arg) : lib_run.arg[i] = "<<"
    /\ \E i \in 1..(Len(lib_run.arg) - 1) :
           lib_run.arg[i] = "_" /\ lib_run.arg[i + 1] = "_"
    /\ lib_run.result.processing # <<>>
    /\ lib_run.result.processing_twice = lib_run.result.processing

-----------------------------------------------------------------------------
(* document_processing.blocks_to_prompt_lines_with_mapping.                *)

\* _append_line(lines, mapping, block_index, value, row_index=row_index);
\* out holds lines and mapping
_append_line(out, block_index, value, row_index) ==
    IF value # <<>>
        THEN [lines |-> Append(out.lines, value),
              mapping |-> Append(out.mapping, <<block_index, row_index>>)]
        ELSE out

\* "TABLE: "
TablePrefix == <<"T", "A", "B", "L", "E", ":", " ">>

\* the inner loop over the rows of a table block, from row_index on
RECURSIVE append_rows(_, _, _, _)
append_rows(out, block_index, rows, row_index) ==
    IF row_index >= Len(rows) THEN out
    ELSE LET row_text == join(CellSeparator, StripNonBlank(rows[row_index + 1]))
         IN  append_rows(IF row_text # <<>>
                             THEN _append_line(out, block_index,
                                               TablePrefix \o row_text, row_index)
                             ELSE out,
                         block_index, rows, row_index + 1)

\* the loop over the blocks, from block_index on
RECURSIVE append_blocks(_, _, _)
append_blocks(out, blocks, block_index) ==
    IF block_index >= Len(blocks) THEN out
    ELSE LET block == blocks[block_index + 1]
         IN  append_blocks(
                 IF block.type = "paragraph"
                     THEN _append_line(out, block_index, strip(block.text), -1)
                     ELSE append_rows(out, block_index, block.rows, 0),
                 blocks, block_index + 1)

\* the line of a table row without the "TABLE: " prefix
blocks_to_prompt_lines_with_mapping_unprefixed(blocks) ==
    LET out == append_blocks([lines |-> <<>>, mapping |-> <<>>], blocks, 0)
    IN  [lines |-> [i \in 1..Len(out.lines) |->
                       IF out.mapping[i][2] # -1
                           THEN SubSeq(out.lines[i], Len(TablePrefix) + 1,
                                       Len(out.lines[i]))
                           ELSE out.lines[i]],
         mapping |-> out.mapping]
\* document_processing.blocks_to_prompt_lines_with_mapping(blocks)
blocks_to_prompt_lines_with_mapping(blocks) ==
    append_blocks([lines |-> <<>>, mapping |-> <<>>], blocks, 0)

\* blocks of a document: paragraphs with and without text, one whose own
\* text starts with "TABLE: ", tables with blank rows and blank cells
PromptBlocks ==
    {Paragraph(<<>>), Paragraph(<<" ">>), Paragraph(<<" ", "a", " ">>),
     Paragraph(TablePrefix \o <<"a">>),
     Table(<<>>),
     Table(<< <<<<"a">>, <<" ", "b", " ">>>> >>),
     Table(<< <<<<" ">>, <<>>>>, <<<<"a">>>> >>),
     Table(<< <<>>, <<<<"a">>, <<" ">>, <<"b">>>>, <<<<"c">>>> >>)}
\* blocks of a document
MaxPromptBlocks == 3
PromptDocuments == UNION {[1..n -> PromptBlocks] : n \in 0..MaxPromptBlocks}

BlocksToPromptLines ==
    /\ lib_run = NoCall
    /\ \E blocks \in PromptDocuments :
         lib_run' = LibCall("blocks_to_prompt_lines_with_mapping", blocks,
                            blocks_to_prompt_lines_with_mapping(blocks))
    /\ UNCHANGED <<handler_vars, export_vars, process>>

Converted ==
    lib_run.t = "call" /\ lib_run.fn = "blocks_to_prompt_lines_with_mapping"

\* mapping entry m names a table block of blocks and a row of it whose
\* trimmed non-blank cells joined by " | " are text
C13_TableRow(blocks, m, text) ==
    /\ m[1] \in 0..(Len(blocks) - 1)
    /\ blocks[m[1] + 1].type = "table"
    /\ m[2] \in 0..(Len(blocks[m[1] + 1].rows) - 1)
    /\ text = join(CellSeparator, StripNonBlank(blocks[m[1] + 1].rows[m[2] + 1]))

\* mapping entry m names a paragraph block of blocks, with row index -1,
\* whose trimmed text is text
C13_ParagraphText(blocks, m, text) ==
    /\ m[1] \in 0..(Len(blocks) - 1)
    /\ blocks[m[1] + 1].type = "paragraph"
    /\ m[2] = -1
    /\ text = strip(blocks[m[1] + 1].text)

\* C13 (as stated): the line list and the mapping have equal length, and at
\* every position a line that starts with "TABLE: " is mapped to a table
\* block and a valid row of it whose non-blank cells joined by " | " are the
\* rest of the line; every other line is mapped to a paragraph block, with
\* row index -1, whose trimmed text is the line.
C13_LinePrefixTellsBlockType ==
    Converted =>
        LET blocks == lib_run.arg
            lines == lib_run.result.lines
            mapping == lib_run.result.mapping
        IN  /\ Len(lines) = Len(mapping)
            /\ \A i \in 1..Len(lines) :
                   IF startswith(lines[i], TablePrefix)
                       THEN C13_TableRow(blocks, mapping[i],
                                SubSeq(lines[i], Len(TablePrefix) + 1, Len(lines[i])))
                       ELSE C13_ParagraphText(blocks, mapping[i], lines[i])

\* C13 (amended): the line list and the mapping have equal length, and at
\* every position the mapping tells the kind of line: an entry with a row
\* index other than -1 names a table block and a valid row of it, and the
\* line is "TABLE: " followed by the row's trimmed non-blank cells joined by
\* " | "; an entry with row index -1 names a paragraph block whose trimmed
\* text, which is not empty and may itself start with "TABLE: ", is the line.
C13_MappingTellsBlockType ==
    Converted =>
        LET blocks == lib_run.arg
            lines == lib_run.result.lines
            mapping == lib_run.result.mapping
        IN  /\ Len(lines) = Len(mapping)
            /\ \A i \in 1..Len(lines) :
                   /\ lines[i] # <<>>
                   /\ IF mapping[i][2] # -1
                          THEN /\ startswith(lines[i], TablePrefix)
                               /\ C13_TableRow(blocks, mapping[i],
                                      SubSeq(lines[i], Len(TablePrefix) + 1,
                                             Len(lines[i])))
                          ELSE C13_ParagraphText(blocks, mapping[i], lines[i])

\* a document is converted to a line of a paragraph that starts with
\* "TABLE: " and a line of a table row behind a blank row
C13_Witness ==
    /\ Converted
    /\ \E i, j \in 1..Len(lib_run.result.lines) :
           /\ lib_run.result.mapping[i][2] = -1
           /\ startswith(lib_run.result.lines[i], TablePrefix)
           /\ lib_run.result.mapping[j][2] > 0
           /\ startswith(lib_run.result.lines[j], TablePrefix)

-----------------------------------------------------------------------------
(* app.specification_utils: the table classifier.                          *)

\* наименован, характерист, товар, ед., ед.изм, кол, кол-во, количество,
\* цена, сумм, стоим, срок
_HEADER_KEYWORDS ==
    << <<"n", "a", "i", "m", "e", "n", "o", "v", "a", "n">>,
       <<"h", "a", "r", "a", "k", "t", "e", "r", "i", "s", "t">>,
       <<"t", "o", "v", "a", "r">>,
       <<"e", "d", ".">>,
       <<"e", "d", ".", "i", "z", "m">>,
       <<"k", "o", "l">>,
       <<"k", "o", "l", "-", "v", "o">>,
       <<"k", "o", "l", "i", "ch", "e", "s", "t", "v", "o">>,
       <<"c", "e", "n", "a">>,
       <<"s", "u", "m", "m">>,
       <<"s", "t", "o", "i", "m">>,
       <<"s", "r", "o", "k">> >>

\* шт, компл, услуг, руб, eur, usd, парт, лот
_DATA_KEYWORDS ==
    << <<"sh", "t">>, <<"k", "o", "m", "p", "l">>, <<"u", "s", "l", "u", "g">>,
       <<"r", "u", "b">>, <<"e", "u", "r">>, <<"u", "s", "d">>,
       <<"p", "a", "r", "t">>, <<"l", "o", "t">> >>

\* r"\bитог", r"\bвсего", r"\bобщая", r"\bсумма договора", r"\bцена": the
\* words searched for at a word boundary
_EXCLUDE_ROW_PATTERNS ==
    << <<"i", "t", "o", "g">>, <<"v", "s", "e", "g", "o">>,
       <<"o", "b", "shch", "a", "ya">>,
       <<"s", "u", "m", "m", "a", " ", "d", "o", "g", "o", "v", "o", "r", "a">>,
       <<"c", "e", "n", "a">> >>

\* str.isalpha() of one character
Alpha ==
    {LowerLetters[i] : i \in 1..Len(LowerLetters)}
        \cup {UpperLetters[i] : i \in 1..Len(UpperLetters)} \cup {"'"}
\* the characters \w matches
WordChars == Alpha \cup Digits \cup {"_"}

\* re.search(r"\b" + word, text), for a word that starts with a letter
search_at_word_boundary(word, text) ==
    \E i \in 1..(Len(text) - Len(word) + 1) :
        /\ SubSeq(text, i, i + Len(word) - 1) = word
        /\ i = 1 \/ text[i - 1] \notin WordChars

\* sum(ch.isalpha() for ch in s)
alpha_count(s) == Cardinality({i \in 1..Len(s) : s[i] \in Alpha})

\* specification_utils._normalize(text); casefold is lower on these letters
_normalize(text) == lower(strip(re_sub_runs(text, WS, 1, <<" ">>)))

\* one pass of the loop of table_has_goods over the row at index: "goods"
\* when the row is evidence of goods, "continue" otherwise
goods_row(row, index, header_band) ==
    LET combined == join(<<" ">>, row)
        normalized == _normalize(combined)
        nonempty(cell) == cell # <<>>
        cells == SelectSeq(row, nonempty)
        normalized_cells == [i \in 1..Len(cells) |-> _normalize(cells[i])]
        has_numeric_cell ==
            \E i \in 1..Len(normalized_cells) : digit_count(normalized_cells[i]) >= 2
        has_text_cell ==
            \E i \in 1..Len(normalized_cells) : alpha_count(normalized_cells[i]) >= 2
    IN  IF normalized = <<>> THEN "continue"
        ELSE IF \E i \in 1..Len(_EXCLUDE_ROW_PATTERNS) :
                    search_at_word_boundary(_EXCLUDE_ROW_PATTERNS[i], normalized)
            THEN "continue"
        ELSE IF index < header_band /\ contains_any(normalized, _HEADER_KEYWORDS)
            THEN "continue"
        ELSE IF contains_any(normalized, _DATA_KEYWORDS) THEN "goods"
        ELSE IF digit_count(normalized) >= 3 /\ alpha_count(normalized) >= 3
            THEN "goods"
        ELSE IF digit_count(normalized) >= 4 /\ normalized_cells # <<>>
                /\ has_numeric_cell /\ has_text_cell
            THEN "goods"
        ELSE "continue"

\* the loop of table_has_goods over the rows from index `first` on
goods_from(rows, first) ==
    LET header_band == Min({2, Len(rows)})
    IN  \E index \in first..(Len(rows) - 1) :
            goods_row(rows[index + 1], index, header_band) = "goods"

\* the loop started at row 0
table_has_goods_from_row_0(rows) == goods_from(rows, 0)
\* specification_utils.table_has_goods(rows): enumerate(rows[1:], start=1)
table_has_goods(rows) == goods_from(rows, 1)

\* the classifier content with two cells in row 0 of a table without header
\* keywords and numbering
is_specification_table_two_cells(block) ==
    IF block.type # "table" THEN FALSE
    ELSE LET rows == block.rows
         IN  IF Len(rows) < 2 THEN FALSE
             ELSE LET header_candidates ==
                          [i \in 1..Min({2, Len(rows)}) |->
                              _normalize(join(<<" ">>, rows[i]))]
                      nonempty(candidate) == candidate # <<>>
                      header == join(<<" ">>, SelectSeq(header_candidates, nonempty))
                      has_header_keywords ==
                          \E i \in 1..Len(header_candidates) :
                              contains_any(header_candidates[i], _HEADER_KEYWORDS)
                      has_numbering == contains_any(header, << <<"No">>, <<"#">> >>)
                      filled_cells ==
                          Cardinality({i \in 1..Len(rows[1]) :
                                          _normalize(rows[1][i]) # <<>>})
                  IN  IF header = <<>> THEN FALSE
                      ELSE IF ~has_header_keywords /\ ~has_numbering
                              /\ (Len(rows[1]) < 2 \/ filled_cells <= 1)
                          THEN FALSE
                      ELSE table_has_goods(rows)
\* the classifier asking for a row besides the two rows of the header band
is_specification_table_beyond_band(block) ==
    IF block.type # "table" THEN FALSE
    ELSE LET rows == block.rows
         IN  IF Len(rows) < 3 THEN FALSE
             ELSE LET header_candidates ==
                          [i \in 1..Min({2, Len(rows)}) |->
                              _normalize(join(<<" ">>, rows[i]))]
                      nonempty(candidate) == candidate # <<>>
                      header == join(<<" ">>, SelectSeq(header_candidates, nonempty))
                      has_header_keywords ==
                          \E i \in 1..Len(header_candidates) :
                              contains_any(header_candidates[i], _HEADER_KEYWORDS)
                      has_numbering == contains_any(header, << <<"No">>, <<"#">> >>)
                      filled_cells ==
                          Cardinality({i \in 1..Len(rows[1]) :
                                          _normalize(rows[1][i]) # <<>>})
                  IN  IF header = <<>> THEN FALSE
                      ELSE IF ~has_header_keywords /\ ~has_numbering
                              /\ (Len(rows[1]) < 3 \/ filled_cells <= 1)
                          THEN FALSE
                      ELSE table_has_goods(rows)
\* specification_utils.is_specification_table(block)
is_specification_table(block) ==
    IF block.type # "table" THEN FALSE
    ELSE LET rows == block.rows
         IN  IF Len(rows) < 2 THEN FALSE
             ELSE LET header_candidates ==
                          [i \in 1..Min({2, Len(rows)}) |->
                              _normalize(join(<<" ">>, rows[i]))]
                      nonempty(candidate) == candidate # <<>>
                      header == join(<<" ">>, SelectSeq(header_candidates, nonempty))
                      has_header_keywords ==
                          \E i \in 1..Len(header_candidates) :
                              contains_any(header_candidates[i], _HEADER_KEYWORDS)
                      has_numbering == contains_any(header, << <<"No">>, <<"#">> >>)
                      filled_cells ==
                          Cardinality({i \in 1..Len(rows[1]) :
                                          _normalize(rows[1][i]) # <<>>})
                  IN  IF header = <<>> THEN FALSE
                      ELSE IF ~has_header_keywords /\ ~has_numbering
                              /\ (Len(rows[1]) < 3 \/ filled_cells <= 1)
                          THEN FALSE
                      ELSE table_has_goods(rows)

\* Наименование, Кол-во, Цена
W_naimenovanie == <<"N", "a", "i", "m", "e", "n", "o", "v", "a", "n", "i", "e">>
W_kol_vo == <<"K", "o", "l", "-", "v", "o">>
W_cena == <<"C", "e", "n", "a">>
\* Стул офисный
W_stul == <<"S", "t", "u", "l", " ", "o", "f", "i", "s", "n", "y", "j">>
\* Итого
W_itogo == <<"I", "t", "o", "g", "o">>

\* the header row and the goods row of the statement
R_header == <<W_naimenovanie, W_kol_vo, W_cena>>
R_chair == << <<"1">>, W_stul, <<"1", "0">>, <<"1", "5", "0", "0">> >>

\* rows of a table: the header, the header behind a numbering column, the
\* goods row, summary rows (one with a unit and digits), a row with
\* "подытог" (no word boundary before "итог") and a unit, blank rows, a
\* header keyword with a unit, rows with few letters, rows without keyword,
\* a row of three cells of which one is filled
TableRows ==
    {R_header,
     << <<"No">> >> \o R_header,
     R_chair,
     <<W_itogo, <<"4", "7", "0", "0">>>>,
     << <<"I", "T", "O", "G", "O", " ", "4", "7", "0", "0", " ", "sh", "t">> >>,
     << <<"p", "o", "d", "y", "t", "o", "g">>, <<"1", " ", "sh", "t">> >>,
     <<>>,
     << <<>>, <<" ">> >>,
     <<W_kol_vo, <<"sh", "t">>>>,
     << <<"a", "b">>, <<"1", "2", "3", "4">> >>,
     << <<"a">>, <<"b">>, <<"1", "2">>, <<"3", "4">> >>,
     << <<"x">>, <<"y">>, <<"z", " ", " ", "1", "2", "3">> >>,
     << <<"x">>, <<>>, <<" ">> >>,
     << <<"x">> >>}
\* rows of a table
MaxRows == 3
RowMatrices == UNION {[1..n -> TableRows] : n \in 0..MaxRows}

IsSpecificationTable ==
    /\ lib_run = NoCall
    /\ \E block \in {Table(rows) : rows \in RowMatrices}
                        \cup {Paragraph(W_naimenovanie)} :
         lib_run' = LibCall("is_specification_table", block,
                            is_specification_table(block))
    /\ UNCHANGED <<handler_vars, export_vars, process>>

\* table_has_goods(rows), and table_has_goods of the rows with row 0 replaced
TableHasGoods ==
    /\ lib_run = NoCall
    /\ \E rows \in RowMatrices, row_0 \in {R_chair, <<>>} :
         lib_run' = LibCall("table_has_goods", rows,
                       [goods |-> table_has_goods(rows),
                        row_0 |-> row_0,
                        goods_other_row_0 |->
                            IF rows = <<>> THEN table_has_goods(rows)
                            ELSE table_has_goods(<<row_0>> \o Tail(rows))])
    /\ UNCHANGED <<handler_vars, export_vars, process>>

Classified == lib_run.t = "call" /\ lib_run.fn = "is_specification_table"
GoodsSought == lib_run.t = "call" /\ lib_run.fn = "table_has_goods"

\* the row's cells joined by spaces, whitespace collapsed and case-folded
C14_RowText(row) == _normalize(join(<<" ">>, row))

\* the row matches one of the summary patterns
C14_Summary(row) ==
    \E i \in 1..Len(_EXCLUDE_ROW_PATTERNS) :
        search_at_word_boundary(_EXCLUDE_ROW_PATTERNS[i], C14_RowText(row))

\* the row at index is no summary row, repeats no header keyword inside the
\* 2-row header band and holds at least 3 digits and at least 3 letters
C14_GoodsRow(rows, index) ==
    /\ ~C14_Summary(rows[index + 1])
    /\ index < 2 => ~contains_any(C14_RowText(rows[index + 1]), _HEADER_KEYWORDS)
    /\ digit_count(C14_RowText(rows[index + 1])) >= 3
    /\ alpha_count(C14_RowText(rows[index + 1])) >= 3

\* C14: is_specification_table accepts the two-row table whose first row
\* holds the cells "Наименование", "Кол-во", "Цена" and whose second row is
\* ["1", "Стул офисный", "10", "1500"], and every table whose first row
\* holds a header keyword and one of whose later rows is no summary row,
\* repeats no header keyword inside the header band and holds at least 3
\* digits and 3 letters.
C14_AcceptsHeaderAndGoodsRow ==
    Classified =>
        LET block == lib_run.arg
            rows == block.rows
        IN  /\ (block.type = "table" /\ Len(rows) = 2
                /\ {W_naimenovanie, W_kol_vo, W_cena}
                       \subseteq {rows[1][i] : i \in 1..Len(rows[1])}
                /\ rows[2] = R_chair)
                   => lib_run.result = TRUE
            /\ (block.type = "table" /\ rows # <<>>
                /\ contains_any(C14_RowText(rows[1]), _HEADER_KEYWORDS)
                /\ \E index \in 1..(Len(rows) - 1) : C14_GoodsRow(rows, index))
                   => lib_run.result = TRUE

\* the table of the statement was classified, and so was a longer table
\* whose only goods row is its last row
C14_Witness ==
    /\ Classified
    /\ lib_run.result = TRUE
    /\ \/ lib_run.arg.rows = <<R_header, R_chair>>
       \/ /\ Len(lib_run.arg.rows) = 3
          /\ C14_Summary(lib_run.arg.rows[2])
          /\ C14_GoodsRow(lib_run.arg.rows, 2)

\* the row is blank
C15_Blank(row) == C14_RowText(row) = <<>>

\* C15: table_has_goods is false for every row matrix in which each row
\* from index 1 on is blank or matches a summary pattern, whatever digits
\* and units those rows hold, and for every matrix of fewer than 2 rows;
\* row 0 is no evidence of goods: replacing it leaves the answer unchanged.
C15_NoGoodsInSummaryRows ==
    GoodsSought =>
        LET rows == lib_run.arg
        IN  /\ (\A index \in 1..(Len(rows) - 1) :
                    C15_Blank(rows[index + 1]) \/ C14_Summary(rows[index + 1]))
                   => lib_run.result.goods = FALSE
            /\ Len(rows) < 2 => lib_run.result.goods = FALSE
            /\ lib_run.result.goods_other_row_0 = lib_run.result.goods

\* a matrix headed by the goods row, with a summary row that holds digits
\* and a unit, is answered false
C15_Witness ==
    /\ GoodsSought
    /\ Len(lib_run.arg) >= 2
    /\ lib_run.arg[1] = R_chair
    /\ \E index \in 1..(Len(lib_run.arg) - 1) :
           /\ C14_Summary(lib_run.arg[index + 1])
           /\ contains_any(C14_RowText(lib_run.arg[index + 1]), _DATA_KEYWORDS)
           /\ digit_count(C14_RowText(lib_run.arg[index + 1])) >= 4
    /\ lib_run.result.goods = FALSE

NextLibrary ==
    \/ CleanTextNoise \/ BlocksToPromptLines \/ IsSpecificationTable \/ TableHasGoods
    \/ LibReturned

SpecLibrary == InitLibrary /\ [][NextLibrary]_vars

-----------------------------------------------------------------------------
(* app.specification_exporter: the export directory.  Sequential exports    *)
(* write into one directory, from which files may be removed between two    *)
(* exports.                                                                 *)

\* the characters [0-9A-Za-zА-Яа-я_-]
StemChars == Alpha \cup Digits \cup {"_", "-"}

\* str.strip(chars)
strip_chars(s, chars) ==
    LET idx == {i \in 1..Len(s) : s[i] \notin chars}
    IN  IF idx = {} THEN <<>> ELSE SubSeq(s, Min(idx), Max(idx))

\* re.sub(r"[^0-9A-Za-zА-Яа-я_-]+", "_", value)
RECURSIVE sub_other_runs(_)
sub_other_runs(value) ==
    IF value = <<>> THEN <<>>
    ELSE IF value[1] \in StemChars THEN <<value[1]>> \o sub_other_runs(Tail(value))
    ELSE LET stop == {i \in 1..Len(value) : value[i] \in StemChars}
         IN  <<"_">> \o (IF stop = {} THEN <<>>
                         ELSE sub_other_runs(SubSeq(value, Min(stop), Len(value))))

\* "specification"
specification_word ==
    <<"s", "p", "e", "c", "i", "f", "i", "c", "a", "t", "i", "o", "n">>

\* specification_exporter._sanitize_stem(value)
_sanitize_stem(value) ==
    LET sanitized == strip_chars(sub_other_runs(value), {".", "_"})
    IN  IF sanitized # <<>> THEN sanitized ELSE specification_word

\* Path(filename).stem
stem(filename) ==
    LET dot == suffix(filename)
        slashes == {i \in 1..Len(filename) : filename[i] = "/"}
        name == IF slashes = {} THEN filename
                ELSE SubSeq(filename, Max(slashes) + 1, Len(filename))
    IN  SubSeq(name, 1, Len(name) - Len(dot))

\* specification_exporter._pick_filename(source_name, stem_fallback); a
\* source_name of None is NoneV
_pick_filename(source_name, stem_fallback) ==
    LET given == IF source_name = NoneV THEN <<>> ELSE stem(source_name.s)
        picked == IF given # <<>> THEN given ELSE stem_fallback
    IN  _sanitize_stem(picked) \o <<"_">> \o specification_word
            \o <<".", "d", "o", "c", "x">>

\* str(counter)
RECURSIVE str_int(_)
str_int(n) ==
    IF n < 10 THEN <<DigitChars[n + 1]>>
    ELSE str_int(n \div 10) \o <<DigitChars[(n % 10) + 1]>>

\* Path.exists() of directory / path, in the directory's files
exists(files, path) == \E f \in files : f.path = path

\* Path.write_bytes(payload): the file is created or its content replaced
write_bytes(files, path, payload) ==
    {f \in files : f.path # path} \cup {[path |-> path, payload |-> payload]}

\* the while loop of _next_available_path from counter on
RECURSIVE next_with_counter(_, _, _, _)
next_with_counter(files, file_stem, file_suffix, counter) ==
    LET updated == file_stem \o <<"_">> \o str_int(counter) \o file_suffix
    IN  IF ~exists(files, updated) THEN updated
        ELSE next_with_counter(files, file_stem, file_suffix, counter + 1)

\* the candidate itself, whether it exists or not
_next_available_path_candidate(files, filename) == filename
\* specification_exporter._next_available_path(directory, filename)
_next_available_path(files, filename) ==
    IF ~exists(files, filename) THEN filename
    ELSE next_with_counter(files, stem(filename), suffix(filename), 1)

\* _table_column_count(rows)
_table_column_count(rows) ==
    IF rows = <<>> THEN 0 ELSE Max({Len(rows[i]) : i \in 1..Len(rows)})

\* _append_table(document, table): the cells of the table added to the
\* document, or nothing
_append_table(document, table) ==
    LET rows == table.rows
        column_count == _table_column_count(rows)
    IN  IF rows = <<>> \/ column_count = 0 THEN document
        ELSE Append(document,
                    [row_index \in 1..Len(rows) |->
                        [column_index \in 1..column_count |->
                            IF column_index <= Len(rows[row_index])
                                THEN rows[row_index][column_index]
                                ELSE <<>>]])

RECURSIVE append_tables(_, _)
append_tables(document, tables) ==
    IF tables = <<>> THEN document
    ELSE append_tables(_append_table(document, tables[1]), Tail(tables))

\* specification_exporter.export_specification_to_docx(specification,
\* source_filename=source_filename, export_dir=directory): what is returned
\* and the files of the directory afterwards
export_specification_to_docx(specification, source_filename, files) ==
    LET has_rows(table) == table.rows # <<>>
        tables == SelectSeq(specification.tables, has_rows)
        payload == append_tables(<<>>, tables)
        filename == _pick_filename(source_filename,
                                   IF specification.heading # <<>>
                                       THEN specification.heading
                                       ELSE specification_word)
        target_path == _next_available_path(files, filename)
    IN  IF tables = <<>>
            THEN [returned |-> NoneV, filename |-> <<>>, files |-> files]
            ELSE [returned |-> [t |-> "written", path |-> target_path,
                                payload |-> payload],
                  filename |-> filename,
                  files |-> write_bytes(files, target_path, payload)]


\* a SpecificationTable, of which the exporter reads the rows
ExportTable(rows) == [rows |-> rows]
\* the tables of a response: none with rows, one table, a table of ragged
\* rows behind a table without rows, a table of empty rows
ExportTables ==
    {<<>>,
     <<ExportTable(<<>>)>>,
     <<ExportTable(<< <<<<"a">>, <<"1">>>> >>)>>,
     <<ExportTable(<<>>), ExportTable(<< <<<<"b">>>>, <<<<"c">>, <<"2">>>> >>)>>,
     <<ExportTable(<< <<>> >>)>>}
\* headings of a response: none, «Спецификация» № 1
ExportHeadings ==
    {<<>>, X_spec \o <<" ", "No", " ", "1">>}
\* names of the source file: none, a.docx, "a b.docx" and a_b.docx (one
\* stem when sanitized), a name that sanitizes to nothing
SourceFilenames ==
    {NoneV, JStr(<<"a", ".", "d", "o", "c", "x">>),
     JStr(<<"a", " ", "b", ".", "d", "o", "c", "x">>),
     JStr(<<"d", "/", "a", "_", "b", ".", "t", "x", "t">>),
     JStr(<<"_", ".", "_", ".", "m", "d">>)}

\* exports and removals of one behaviour
MaxExports == 3

InitExport ==
    /\ export_dir = {}
    /\ export_log = <<>>
    /\ exporting = NotExporting
    /\ ExtractorIdle /\ ApiIdle /\ HealthIdle /\ UploadIdle /\ LibIdle
    /\ ProcessIdle

\* one call of export_specification_to_docx into the directory
Export ==
    /\ Len(export_log) < MaxExports
    /\ \E heading \in ExportHeadings, tables \in ExportTables,
          source_filename \in SourceFilenames :
         LET done == export_specification_to_docx(
                         [heading |-> heading, tables |-> tables],
                         source_filename, export_dir)
         IN  /\ export_dir' = done.files
             /\ export_log' = Append(export_log,
                                  [t |-> "export", filename |-> done.filename,
                                   returned |-> done.returned,
                                   before |-> export_dir, after |-> done.files])
    /\ UNCHANGED <<handler_vars, lib_run, process, exporting>>

\* a file of the directory is removed from outside
RemoveExported ==
    /\ Len(export_log) < MaxExports
    /\ \E f \in export_dir :
         /\ export_dir' = export_dir \ {f}
         /\ export_log' = Append(export_log,
                              [t |-> "remove", filename |-> f.path,
                               returned |-> NoneV,
                               before |-> export_dir, after |-> export_dir \ {f}])
    /\ UNCHANGED <<handler_vars, lib_run, process, exporting>>

NextExport == Export \/ RemoveExported

SpecExport == InitExport /\ [][NextExport]_vars

-----------------------------------------------------------------------------
(* Claims about the exporter (checked under SpecExport).                   *)

\* the exports that wrote a file
C16_Written == {i \in 1..Len(export_log) : export_log[i].returned # NoneV}

\* the exports before export i that wrote a file for the same name, and
\* whether all their files are still there at export i
C16_Earlier(i) ==
    {j \in C16_Written : j < i /\ export_log[j].filename = export_log[i].filename}
C16_AllPresent(i) ==
    \A j \in C16_Earlier(i) :
        ~\E r \in (j + 1)..(i - 1) :
            /\ export_log[r].t = "remove"
            /\ export_log[r].filename = export_log[j].returned.path

\* <stem>_specification_k.docx of <stem>_specification.docx
C16_Numbered(filename, k) ==
    SubSeq(filename, 1, Len(filename) - 5) \o <<"_">> \o str_int(k)
        \o <<".", "d", "o", "c", "x">>

\* C16: in a sequence of exports into one directory, every export with a
\* table that has rows writes to a path that did not exist before it, and
\* leaves every file that was there unchanged; the first export of a name
\* writes <stem>_specification.docx, and the k-th later export of the
\* name, with all earlier files of the name still there, writes
\* <stem>_specification_k.docx.
C16_ExportsNeverOverwrite ==
    \A i \in 1..Len(export_log) :
        LET e == export_log[i]
        IN  e.t = "export" =>
                IF e.returned = NoneV THEN e.after = e.before
                ELSE /\ ~exists(e.before, e.returned.path)
                     /\ e.before \subseteq e.after
                     /\ [path |-> e.returned.path, payload |-> e.returned.payload]
                            \in e.after
                     /\ C16_Earlier(i) = {} => e.returned.path = e.filename
                     /\ (C16_Earlier(i) # {} /\ C16_AllPresent(i))
                            => e.returned.path
                                   = C16_Numbered(e.filename,
                                                  Cardinality(C16_Earlier(i)))

\* three exports of one name with different tables: the third is written
\* as <stem>_specification_2.docx beside the two earlier files
C16_Witness ==
    /\ Len(export_log) = 3
    /\ C16_Written = {1, 2, 3}
    /\ C16_Earlier(3) = {1, 2}
    /\ export_log[3].returned.payload # export_log[1].returned.payload
    /\ export_log[3].returned.path = C16_Numbered(export_log[3].filename, 2)
    /\ Cardinality(export_dir) = 3

-----------------------------------------------------------------------------
(* app.core.config and app.api.deps: the settings and the client of the    *)
(* process.  An object is known by its id, the number of objects           *)
(* constructed before it plus one.  The dependencies of a request are      *)
(* plain functions, which the framework calls in worker threads: the calls *)
(* of two requests interleave.                                             *)

\* str.rstrip(chars)
rstrip_chars(s, chars) ==
    LET idx == {i \in 1..Len(s) : s[i] \notin chars}
    IN  IF idx = {} THEN <<>> ELSE SubSeq(s, 1, Max(idx))

\* Settings(): ollama_base_url is read from CONTRACT_PARSER_OLLAMA_BASE_URL,
\* or is the default
Settings(id, environ) ==
    [id |-> id,
     ollama_base_url |-> IF environ = NoneV THEN ollama_base_url ELSE environ.s,
     specification_model |-> specification_model]

\* OllamaClient(base_url=base_url)
OllamaClient(id, base_url) == [id |-> id, base_url |-> rstrip_chars(base_url, {"/"})]

\* SpecificationExtractor(client, model=model, prompt_template=...)
SpecificationExtractor(id, client, model) ==
    [id |-> id, _ollama |-> client, _model |-> model, _enable_fallback |-> TRUE]

\* the lookup of functools.lru_cache for a function without arguments
cache_hit(cache) == cache # NoneV

\* what the lru_cache wrapper does after the wrapped function returned
\* result: the result is stored unless the cache was filled meanwhile, and
\* the result just computed is returned in both cases
cache_store(cache, result) == IF cache = NoneV THEN result ELSE cache

\* get_settings() in process p: the instance returned and the process after
get_settings(p) ==
    IF cache_hit(p.settings_cache)
        THEN [returned |-> p.settings_cache, process |-> p]
        ELSE LET made == Settings(p.objects + 1, p.environ)
             IN  [returned |-> made,
                  process |-> [p EXCEPT !.objects = p.objects + 1,
                                        !.settings_cache =
                                            cache_store(p.settings_cache, made)]]

\* values of CONTRACT_PARSER_OLLAMA_BASE_URL: unset, two URLs
Environs == {NoneV, JStr(<<"http://a">>), JStr(<<"http://b", "/">>)}

\* requests of one behaviour, and get_settings() calls after the import
MaxRequests == 2
MaxCalls == 2

Waiting == [pc |-> "waiting", client |-> NoneV, extractor |-> NoneV]

\* the process after the import of app.core.config, whose last statement is
\* settings = get_settings()
Imported(environ) ==
    LET blank == [t |-> "up", environ |-> environ, loaded |-> environ,
                  objects |-> 0, settings |-> NoneV, settings_cache |-> NoneV,
                  client_cache |-> NoneV, clients |-> 0, returned |-> <<>>,
                  requests |-> [r \in 1..MaxRequests |-> Waiting]]
        got == get_settings(blank)
    IN  [got.process EXCEPT !.settings = got.returned]

InitProcess ==
    /\ \E environ \in Environs : process = Imported(environ)
    /\ ExtractorIdle /\ ApiIdle /\ HealthIdle /\ UploadIdle /\ LibIdle
    /\ ExportIdle

\* os.environ is changed
SetEnviron ==
    /\ \E environ \in Environs :
         /\ environ # process.environ
         /\ process' = [process EXCEPT !.environ = environ]
    /\ UNCHANGED <<handler_vars, lib_run, export_vars>>

\* a call of get_settings()
GetSettings ==
    /\ Len(process.returned) < MaxCalls
    /\ LET got == get_settings(process)
       IN  process' = [got.process EXCEPT
                          !.returned = Append(process.returned, got.returned)]
    /\ UNCHANGED <<handler_vars, lib_run, export_vars>>

\* request r calls get_ollama_client(): the wrapper looks the cache up and
\* returns the cached client, or goes on to call the wrapped function
LookupClient(r) ==
    /\ process.requests[r].pc = "waiting"
    /\ process' =
           IF cache_hit(process.client_cache)
               THEN [process EXCEPT !.requests[r].pc = "client",
                                    !.requests[r].client = process.client_cache]
               ELSE [process EXCEPT !.requests[r].pc = "constructing"]
    /\ UNCHANGED <<handler_vars, lib_run, export_vars>>

\* the wrapped get_ollama_client() of request r returns a new client, which
\* the wrapper stores and returns
ConstructClient(r) ==
    /\ process.requests[r].pc = "constructing"
    /\ LET made == OllamaClient(process.objects + 1,
                                process.settings.ollama_base_url)
       IN  process' = [process EXCEPT
                          !.objects = process.objects + 1,
                          !.clients = process.clients + 1,
                          !.client_cache = cache_store(process.client_cache, made),
                          !.requests[r].pc = "client",
                          !.requests[r].client = made]
    /\ UNCHANGED <<handler_vars, lib_run, export_vars>>

\* get_specification_extractor(client) of request r
GetSpecificationExtractor(r) ==
    /\ process.requests[r].pc = "client"
    /\ process' = [process EXCEPT
                      !.objects = process.objects + 1,
                      !.requests[r].pc = "done",
                      !.requests[r].extractor =
                          SpecificationExtractor(process.objects + 1,
                              process.requests[r].client,
                              process.settings.specification_model)]
    /\ UNCHANGED <<handler_vars, lib_run, export_vars>>

NextProcess ==
    \/ SetEnviron
    \/ GetSettings
    \/ \E r \in 1..MaxRequests : LookupClient(r)
    \/ \E r \in 1..MaxRequests : ConstructClient(r)
    \/ \E r \in 1..MaxRequests : GetSpecificationExtractor(r)

SpecProcess == InitProcess /\ [][NextProcess]_vars

-----------------------------------------------------------------------------
(* Claims about the singletons (checked under SpecProcess).                *)

Up == process.t = "up"

\* the requests whose dependency resolution was given a client
C17_Given == {r \in 1..MaxRequests : process.requests[r].pc \in {"client", "done"}}
C17_Done == {r \in 1..MaxRequests : process.requests[r].pc = "done"}

\* C17: the singletons are constructed at most once: whatever the
\* environment was changed to, every get_settings() call returns the
\* Settings instance built on first load, which is the module-level
\* settings binding; every request's dependency resolution is given the
\* same client instance, of which one was constructed; every request is
\* given a new extractor that wraps that client.
C17_SingletonsConstructedOnce ==
    Up =>
        /\ \A i \in 1..Len(process.returned) :
               /\ process.returned[i] = process.settings
               /\ process.returned[i] = Settings(1, process.loaded)
        /\ process.clients <= 1
        /\ \A r1, r2 \in C17_Given :
               process.requests[r1].client = process.requests[r2].client
        /\ \A r \in C17_Done :
               /\ process.requests[r].extractor._ollama = process.client_cache
               /\ \A r2 \in C17_Done \ {r} :
                      process.requests[r].extractor.id
                          # process.requests[r2].extractor.id

-----------------------------------------------------------------------------
(* app.specification_builder: the response built from a located section.   *)

\* specification_builder._block_preview(block)
_block_preview(block) ==
    IF block.type = "table"
        THEN IF block.rows # <<>>
                 THEN head(join(CellSeparator, block.rows[1]), PreviewLimit)
                 ELSE Tablica
        ELSE head(strip(block.text), PreviewLimit)

\* specification_builder._make_anchor(index, block, fallback); a fallback
\* of None is the empty string
builder_make_anchor(index, block, fallback) ==
    [index |-> index, type |-> block.type,
     preview |-> IF _block_preview(block) # <<>> THEN _block_preview(block)
                 ELSE fallback]

\* specification_builder._make_table(region)
builder_make_table(region) ==
    LET rows == region.block.rows
        preview == IF rows # <<>>
                       THEN head(join(CellSeparator, rows[1]), PreviewLimit)
                       ELSE Tablica
        end_preview == IF rows # <<>>
                           THEN head(join(CellSeparator, rows[Len(rows)]),
                                     PreviewLimit)
                           ELSE preview
    IN  [index |-> region.index,
         row_count |-> Len(rows),
         column_count |-> IF rows = <<>> THEN 0
                          ELSE Max({Len(rows[i]) : i \in 1..Len(rows)}),
         preview |-> preview,
         start_anchor |-> builder_make_anchor(region.start_index, region.block,
                                              preview),
         end_anchor |-> builder_make_anchor(region.end_index, region.block,
                                            end_preview),
         rows |-> rows]

\* specification_builder.build_specification_response(result)
build_specification_response(result) ==
    LET start_anchor == builder_make_anchor(result.start_index, result.start_block,
                                            <<>>)
        end_anchor == builder_make_anchor(result.end_index, result.end_block,
                                          start_anchor.preview)
    IN  [heading |-> result.heading,
         start_anchor |-> start_anchor,
         end_anchor |-> end_anchor,
         tables |-> [i \in 1..Len(result.tables) |->
                        builder_make_table(result.tables[i])]]

\* the sections the locator finds in the uploads of the model
LocatedSections ==
    LET extractions == {parser_extract_specification(upload[1], upload[2], "0x7f01") :
                            upload \in Uploads}
    IN  {e.outcome.v : e \in {x \in extractions : x.outcome.kind = "return"}}

\* build_specification_response is called on a located section
BuildSpecificationResponse ==
    /\ lib_run = NoCall /\ UploadIdle
    /\ \E result \in LocatedSections :
         lib_run' = LibCall("build_specification_response", result,
                            build_specification_response(result))
    /\ UNCHANGED <<handler_vars, export_vars, process>>

-----------------------------------------------------------------------------
(* app.neural_specification: the detector that asks the chat model for the *)
(* boundaries of the section, and the ingestion of app.document_processing *)
(* it reads the document with.                                             *)

\* the loop of document_processing._parse_plain_text over the lines
RECURSIVE processing_parse_lines(_, _, _)
processing_parse_lines(lines, blocks, current_table) ==
    IF lines = <<>> THEN _flush_table(blocks, current_table)
    ELSE LET line == lines[1]
             clean_line == processing_clean_text_noise(line)
             columns == StripNonBlank(split(line, "|"))
         IN  IF clean_line = <<>>
                 THEN processing_parse_lines(Tail(lines),
                                             _flush_table(blocks, current_table), <<>>)
             ELSE IF (\E i \in 1..Len(line) : line[i] = "|") /\ columns # <<>>
                 THEN processing_parse_lines(Tail(lines), blocks,
                                             Append(current_table, columns))
             ELSE processing_parse_lines(Tail(lines),
                                         Append(_flush_table(blocks, current_table),
                                                Paragraph(clean_line)),
                                         <<>>)

\* document_processing._parse_plain_text(payload): the lines lose their
\* trailing whitespace only
processing_parse_plain_text(payload) ==
    LET raw_lines == splitlines(payload.text)
        lines == [i \in 1..Len(raw_lines) |-> rstrip(raw_lines[i])]
    IN  processing_parse_lines(lines, <<>>, <<>>)

\* document_processing._parse_docx(payload)
processing_parse_docx(payload, at) ==
    IF payload.open # "ok" THEN Document_error(payload, at)
    ELSE LET BlocksOf(item) ==
                 IF item.tag = "p"
                     THEN LET raw_text == join(<<" ">>, words(item.text))
                          IN  <<Paragraph(processing_clean_text_noise(raw_text))>>
                 ELSE IF item.tag = "tbl"
                     THEN LET rows == _table_to_rows(item)
                          IN  IF rows # <<>> THEN <<Table(rows)>> ELSE <<>>
                 ELSE <<>>
         IN  Return(ConcatAll([i \in 1..Len(payload.body) |->
                                  BlocksOf(payload.body[i])]))

\* document_processing.load_blocks(filename, payload): any suffix but .docx
\* is read as text
load_blocks(filename, payload, at) ==
    IF lower(suffix(filename)) = <<".", "d", "o", "c", "x">>
        THEN processing_parse_docx(payload, at)
        ELSE Return(processing_parse_plain_text(payload))

\* "(пустой документ)"
EmptyDocument == <<"(pustoj dokument)">>

\* f"{index:04d}"
zero_padded(index) ==
    [i \in 1..(4 - Len(str_int(index))) |-> "0"] \o str_int(index)

\* neural_specification._enumerate_document(lines); index counts from 0
_enumerate_document(lines) ==
    LET clean_line(i) ==
            strip([k \in 1..Len(lines[i]) |->
                      IF lines[i][k] = "\n" THEN " " ELSE lines[i][k]])
        rows == [i \in 1..Len(lines) |->
                    IF clean_line(i) # <<>>
                        THEN <<zero_padded(i - 1) \o <<":", " ">> \o clean_line(i)>>
                        ELSE <<>>]
    IN  IF ConcatAll(rows) # <<>> THEN join(<<"\n">>, ConcatAll(rows))
        ELSE EmptyDocument

\* the value of a string of digits
RECURSIVE digits_value(_)
digits_value(s) ==
    IF s = <<>> THEN 0
    ELSE 10 * digits_value(SubSeq(s, 1, Len(s) - 1))
             + (CHOOSE d \in 0..9 : DigitChars[d + 1] = s[Len(s)])

\* int(value) giving 0 for what is no number
py_int_lenient(value) ==
    LET OfDigits(digits) ==
            IF digits # <<>> /\ \A i \in 1..Len(digits) : digits[i] \in Digits
                THEN Return(digits_value(digits))
                ELSE Return(0)
    IN  CASE value.t = "num" -> Return(value.n)
          [] value.t = "bool" -> Return(IF value.b THEN 1 ELSE 0)
          [] value.t = "str" -> OfDigits(strip(value.s))
          [] OTHER -> Return(0)
\* int(value), for the values of the model: a number is itself, a boolean
\* 0 or 1, a string of digits between blanks its value; any other string is
\* a ValueError and any other value a TypeError
py_int(value) ==
    LET OfDigits(digits) ==
            IF digits # <<>> /\ \A i \in 1..Len(digits) : digits[i] \in Digits
                THEN Return(digits_value(digits))
                ELSE Raise("ValueError", <<"invalid literal for int()">>)
    IN  CASE value.t = "num" -> Return(value.n)
          [] value.t = "bool" -> Return(IF value.b THEN 1 ELSE 0)
          [] value.t = "str" -> OfDigits(strip(value.s))
          [] OTHER -> Raise("TypeError",
                            <<"int() argument must be a string or a number">>)

\* neural_specification._coerce_index(value)
_coerce_index(value) ==
    LET Checked(index) ==
            IF index.kind = "raise" THEN -1
            ELSE IF index.v >= 0 THEN index.v ELSE -1
    IN  Checked(py_int(value))

\* the anchor with the preview the reply gave, at its full length
_anchor_from_payload_uncut(payload, fallback_lines, default_type) ==
    LET Anchor(line_index, preview, block_type) ==
            [index |-> line_index,
             type |-> IF block_type \in {<<"paragraph">>, <<"table">>}
                          THEN block_type[1] ELSE default_type,
             preview |-> preview]
        Previewed(line_index, given) ==
            Anchor(line_index,
                   IF 0 <= line_index /\ line_index < Len(fallback_lines)
                      /\ given = <<>>
                       THEN head(fallback_lines[line_index + 1], PreviewLimit)
                       ELSE given,
                   PyStr(Or(Get(payload, "type"), JStr(<<default_type>>))))
    IN  Previewed(_coerce_index(Get(payload, "line")),
                  strip(PyStr(Or(Get(payload, "preview"), JStr(<<>>)))))
\* neural_specification._anchor_from_payload(payload, fallback_lines,
\* default_type=...); payload is a JSON object, index counts from 0, and a
\* block type is written in one token
_anchor_from_payload(payload, fallback_lines, default_type) ==
    LET Anchor(line_index, preview, block_type) ==
            [index |-> line_index,
             type |-> IF block_type \in {<<"paragraph">>, <<"table">>}
                          THEN block_type[1] ELSE default_type,
             preview |-> head(preview, PreviewLimit)]
        Previewed(line_index, given) ==
            Anchor(line_index,
                   IF 0 <= line_index /\ line_index < Len(fallback_lines)
                      /\ given = <<>>
                       THEN head(fallback_lines[line_index + 1], PreviewLimit)
                       ELSE given,
                   PyStr(Or(Get(payload, "type"), JStr(<<default_type>>))))
    IN  Previewed(_coerce_index(Get(payload, "line")),
                  strip(PyStr(Or(Get(payload, "preview"), JStr(<<>>)))))

\* the table _find_tables_in_section makes of a table block; positions are
\* the lines of the block
detected_table(block_index, rows, positions) ==
    LET Made(preview, end_preview) ==
            [index |-> block_index,
             row_count |-> Len(rows),
             column_count |-> Max({Len(rows[i]) : i \in 1..Len(rows)}),
             preview |-> preview,
             start_anchor |-> [index |-> Min(positions), type |-> "table",
                               preview |-> preview],
             end_anchor |-> [index |-> Max(positions), type |-> "table",
                             preview |-> IF end_preview # <<>> THEN end_preview
                                         ELSE preview],
             rows |-> rows]
        Shown(preview) == IF preview # <<>> THEN preview ELSE Tablica
    IN  Made(Shown(head(join(CellSeparator, rows[1]), PreviewLimit)),
             head(join(CellSeparator, rows[Len(rows)]), PreviewLimit))

\* the loop detecting a table block at each of its lines
RECURSIVE find_tables_from_unseen(_, _, _, _, _, _)
find_tables_from_unseen(blocks, mapping, line_index, last, seen, detected) ==
    LET Visit(block_index, block) ==
            IF \/ block.type # "table"
               \/ block.rows = <<>>
               \/ ~is_specification_table(block)
                THEN find_tables_from_unseen(blocks, mapping, line_index + 1, last,
                                             seen, detected)
                ELSE find_tables_from_unseen(
                         blocks, mapping, line_index + 1, last,
                         seen \cup {block_index},
                         Append(detected,
                                detected_table(block_index, block.rows,
                                               {i \in 0..(Len(mapping) - 1) :
                                                   mapping[i + 1][1] = block_index})))
    IN  IF line_index > last THEN detected
        ELSE Visit(mapping[line_index + 1][1],
                   blocks[mapping[line_index + 1][1] + 1])
\* the loop of _find_tables_in_section over the lines line_index..last;
\* seen holds the blocks already detected
RECURSIVE find_tables_from(_, _, _, _, _, _)
find_tables_from(blocks, mapping, line_index, last, seen, detected) ==
    LET Visit(block_index, block) ==
            IF \/ block_index \in seen
               \/ block.type # "table"
               \/ block.rows = <<>>
               \/ ~is_specification_table(block)
                THEN find_tables_from(blocks, mapping, line_index + 1, last, seen,
                                      detected)
                ELSE find_tables_from(
                         blocks, mapping, line_index + 1, last,
                         seen \cup {block_index},
                         Append(detected,
                                detected_table(block_index, block.rows,
                                               {i \in 0..(Len(mapping) - 1) :
                                                   mapping[i + 1][1] = block_index})))
    IN  IF line_index > last THEN detected
        ELSE Visit(mapping[line_index + 1][1],
                   blocks[mapping[line_index + 1][1] + 1])

\* the lines _find_tables_in_section walks, first..last, for a mapping that
\* is not empty: range(start_index, min(end_index, total_lines - 1) + 1)
\* after the three adjustments of the indexes
section_range(mapping, start_index, end_index) ==
    LET total_lines == Len(mapping)
        start == IF start_index < 0 THEN 0 ELSE start_index
        clipped == IF end_index < 0 \/ end_index >= total_lines
                       THEN total_lines - 1 ELSE end_index
        end == IF clipped < start THEN total_lines - 1 ELSE clipped
    IN  [first |-> start, last |-> Min({end, total_lines - 1})]

\* neural_specification._find_tables_in_section(blocks, mapping,
\* start_index, end_index); the indexes count lines from 0
_find_tables_in_section(blocks, mapping, start_index, end_index) ==
    LET Walk(range) ==
            find_tables_from(blocks, mapping, range.first, range.last, {}, <<>>)
    IN  IF mapping = <<>> THEN <<>>
        ELSE Walk(section_range(mapping, start_index, end_index))

\* the fence of a code block, three grave accents (each written grave),
\* and "json"
Fence == <<"grave", "grave", "grave">>
Json == <<"j", "s", "o", "n">>

\* re.sub(r"^<fence>(?:json)?\s*", "", reply, flags=re.I)
sub_opening_fence(reply) ==
    IF ~startswith(reply, Fence) THEN reply
    ELSE LET fenced == SubSeq(reply, Len(Fence) + 1, Len(reply))
             rest == IF startswith(lower(fenced), Json)
                         THEN SubSeq(fenced, Len(Json) + 1, Len(fenced))
                         ELSE fenced
             solid == {i \in 1..Len(rest) : rest[i] \notin WS}
         IN  IF solid = {} THEN <<>> ELSE SubSeq(rest, Min(solid), Len(rest))

\* re.sub(r"\s*<fence>$", "", reply), for a reply that ends with no line break
sub_closing_fence(reply) ==
    IF Len(reply) >= Len(Fence)
       /\ SubSeq(reply, Len(reply) - Len(Fence) + 1, Len(reply)) = Fence
        THEN rstrip(SubSeq(reply, 1, Len(reply) - Len(Fence)))
        ELSE reply

\* the texts of the prompt and of the errors, which the code never looks
\* inside: _SYSTEM_PROMPT, _USER_PROMPT_TEMPLATE up to $document,
\* "Нейросеть вернула неожиданный ответ: ", "Раздел 'Спецификация' не найден"
_SYSTEM_PROMPT == <<"Vy analiziruete kontrakty">>
_USER_PROMPT_TEMPLATE == <<"Ty analiziruesh' dokument ... Dokument:", "\n">>
UnexpectedReply == <<"Nejroset' vernula neozhidannyj otvet: ">>
SectionNotFound == <<"Razdel 'Specifikaciya' ne najden">>

\* one table of the reply, as the body of the try block builds it: the
\* table, or the exception that makes the loop pass over the entry
table_from_payload(table_payload, lines) ==
    LET \* list[list[str]] of the schema
        ValidRows(rows) ==
            /\ rows.t = "list"
            /\ \A i \in 1..Len(rows.l) :
                  /\ rows.l[i].t = "list"
                  /\ \A j \in 1..Len(rows.l[i].l) : rows.l[i].l[j].t = "str"
        Entry(start, end, row_count, column_count, rows) ==
            IF start.t # "dict" \/ end.t # "dict"
                THEN Raise("AttributeError", <<"no attribute 'get'">>)
            ELSE IF row_count.kind = "raise" THEN row_count
            ELSE IF column_count.kind = "raise" THEN column_count
            ELSE IF ~ValidRows(rows) THEN Raise("ValidationError", <<"rows">>)
            ELSE Return(
                [index |-> _coerce_index(Get(table_payload, "index")),
                 row_count |-> row_count.v,
                 column_count |-> column_count.v,
                 preview |-> head(PyStr(Or(Get(table_payload, "preview"),
                                           JStr(<<>>))), PreviewLimit),
                 start_anchor |-> _anchor_from_payload(start, lines, "table"),
                 end_anchor |-> _anchor_from_payload(end, lines, "table"),
                 rows |-> [i \in 1..Len(rows.l) |->
                              [j \in 1..Len(rows.l[i].l) |-> rows.l[i].l[j].s]]])
    IN  IF table_payload.t # "dict"
            THEN Raise("AttributeError", <<"no attribute 'get'">>)
            ELSE Entry(Or(Get(table_payload, "start"), JDict(<<>>)),
                       Or(Get(table_payload, "end"), JDict(<<>>)),
                       py_int(Or(Get(table_payload, "row_count"), JNum(0))),
                       py_int(Or(Get(table_payload, "column_count"), JNum(0))),
                       Or(Get(table_payload, "rows"), JList(<<>>)))

\* detect_specification from the decoded reply on
detect_from_reply(data, blocks, lines, mapping, debug) ==
    LET Has(key) == key \in DOMAIN data.f
        \* data["start_anchor"] = {**data["start"]}
        Spread(key, anchor_key) == Has(key) /\ ~Has(anchor_key)
        \* data.get("start_anchor") or {}
        Payload(key, anchor_key) ==
            Or(IF Has(anchor_key) THEN data.f[anchor_key] ELSE Get(data, key),
               JDict(<<>>))
        Built(t) == t.kind = "return"
        WithGoods(table) == table.rows # <<>> /\ table_has_goods(table.rows)
        Values(made) == [i \in 1..Len(made) |-> made[i].v]
        \* the tables of the reply that validate and hold goods
        Tables(items) ==
            SelectSeq(Values(SelectSeq([i \in 1..Len(items) |->
                                           table_from_payload(items[i], lines)],
                                       Built)),
                      WithGoods)
        Specification(start_anchor, end_anchor, heading, tables, detected_tables) ==
            Return([specification |->
                        [heading |-> heading,
                         start_anchor |-> start_anchor,
                         end_anchor |-> end_anchor,
                         tables |-> IF detected_tables # <<>> THEN detected_tables
                                    ELSE tables],
                    debug |-> debug])
        Anchored(start_anchor, end_anchor, heading, tables) ==
            Specification(start_anchor, end_anchor, heading, tables,
                          _find_tables_in_section(blocks, mapping, start_anchor.index,
                                                  end_anchor.index))
        Read(start_payload, end_payload, listed, heading) ==
            IF start_payload.t # "dict" \/ end_payload.t # "dict"
                THEN Raise("AttributeError", <<"no attribute 'get'">>)
            ELSE IF listed.t = "TypeError"
                THEN Raise("TypeError", <<"object is not iterable">>)
            ELSE IF heading.t # "str" THEN Raise("ValidationError", <<"heading">>)
            ELSE Anchored(_anchor_from_payload(start_payload, lines, "paragraph"),
                          _anchor_from_payload(end_payload, lines, "paragraph"),
                          heading.s, Tables(listed.items))
    IN  IF data.t # "dict" THEN Raise("AttributeError", <<"no attribute 'get'">>)
        ELSE IF Falsy(Get(data, "found"))
            THEN Raise("ValueError",
                       PyStr(Or(Get(data, "reason"), JStr(SectionNotFound))))
        ELSE IF \/ Spread("start", "start_anchor") /\ data.f["start"].t # "dict"
                \/ Spread("end", "end_anchor") /\ data.f["end"].t # "dict"
            THEN Raise("TypeError", <<"is not a mapping">>)
        ELSE Read(Payload("start", "start_anchor"), Payload("end", "end_anchor"),
                  Iter(Or(Get(data, "tables"), JList(<<>>))),
                  Or(Get(data, "heading"), JStr(SPECIFIKACIYA)))

\* texts of the replies: longer than a preview, at the limit, short
T_over == Padded(<<"n">>, PreviewLimit + 1)
T_far_over == Padded(<<"k">>, PreviewLimit + 50)
T_at == Padded(<<"r">>, PreviewLimit)
T_goods ==
    <<"s", "t", "u", "l", " ", "1", "0", "0", " ", "sh", "t">>
J_goods ==
    JList(<<JList(<<JStr(<<"K", "o", "l">>), JStr(<<"x">>)>>),
            JList(<<JStr(T_goods), JStr(T_over)>>)>>)

\* the JSON documents the chat model of the model writes as its reply
NeuralReplyValues ==
    {JDict([found |-> JBool(TRUE), heading |-> JStr(<<"S">>),
            start |-> JDict([line |-> JNum(0), preview |-> JStr(T_over)]),
            end |-> JDict([line |-> JNum(2), preview |-> JStr(T_far_over)]),
            tables |-> JList(<<JDict([index |-> JNum(1), row_count |-> JNum(2),
                                      column_count |-> JNum(2),
                                      preview |-> JStr(T_far_over),
                                      start |-> JDict([line |-> JNum(1),
                                                       preview |-> JStr(T_at)]),
                                      end |-> JDict([line |-> JNum(2),
                                                     preview |-> JStr(T_over)]),
                                      rows |-> J_goods])>>)]),
     JDict([found |-> JBool(TRUE),
            start |-> JDict([line |-> JNum(0)]),
            end |-> JDict([line |-> JStr(<<"2">>)]),
            tables |-> JList(<<JDict([index |-> JStr(<<"1">>),
                                      start |-> JDict([line |-> JNum(1)]),
                                      end |-> JDict([line |-> JNum(2),
                                                     type |-> JStr(<<"paragraph">>)]),
                                      rows |-> J_goods]),
                               JStr(<<"x">>),
                               JDict([row_count |-> JStr(<<"x">>), rows |-> J_goods]),
                               JDict([rows |-> JList(<<JList(<<JNum(1)>>)>>)]),
                               JDict([start |-> JStr(<<"x">>), rows |-> J_goods]),
                               JDict([preview |-> JStr(T_over)])>>)]),
     JDict([found |-> JBool(TRUE)]),
     JDict([found |-> JNum(1), start |-> JDict([line |-> JNum(9),
                                                 type |-> JStr(<<"table">>)]),
            end |-> JDict([line |-> JNum(1), type |-> JStr(<<"x">>)])]),
     JDict([found |-> JBool(TRUE),
            start_anchor |-> JDict([line |-> JNum(1), preview |-> JStr(<<" ">>)]),
            start |-> JStr(<<"x">>),
            end_anchor |-> JDict([line |-> JBool(TRUE), preview |-> JNum(5)])]),
     JDict([found |-> JBool(TRUE), start |-> JDict([line |-> JNum(5)]),
            end |-> JDict([line |-> JNum(2)])]),
     JDict([found |-> JBool(FALSE), reason |-> JStr(<<"n", "o">>)]),
     JDict([found |-> JBool(FALSE)]),
     JDict([heading |-> JStr(<<"S">>)]),
     JList(<<>>),
     JDict([found |-> JBool(TRUE), start |-> JStr(<<"x">>)]),
     JDict([found |-> JBool(TRUE), end |-> JNull]),
     JDict([found |-> JBool(TRUE), start_anchor |-> JStr(<<"x">>)]),
     JDict([found |-> JBool(TRUE), tables |-> JNum(5)]),
     JDict([found |-> JBool(TRUE), heading |-> JNum(5)])}

\* json.loads(reply), on the texts of the model: the value whose JSON text
\* it is, or a JSONDecodeError
neural_json_loads(text) ==
    IF \E v \in NeuralReplyValues : json_dumps(v) = text
        THEN Return(CHOOSE v \in NeuralReplyValues : json_dumps(v) = text)
        ELSE Raise("JSONDecodeError", <<"Expecting value">>)

\* neural_specification.detect_specification(filename, payload), given the
\* exchange with the runtime; at is the address of the stream of _parse_docx.
\* build_debug_info makes an LlmDebugInfo, whose response is a dict.
detect_specification(filename, payload, at, up) ==
    LET Decoded(blocks, prompt, debug, reply, parsed) ==
            IF parsed.kind = "raise"
                THEN Raise("ValueError", UnexpectedReply \o reply)
                ELSE detect_from_reply(parsed.v, blocks, prompt.lines, prompt.mapping,
                                       debug)
        Replied(blocks, prompt, debug, reply) ==
            Decoded(blocks, prompt, debug, reply, neural_json_loads(reply))
        Answered(blocks, prompt, messages, raw) ==
            IF raw.kind = "raise" THEN raw
            ELSE IF raw.v.t # "dict" THEN Raise("ValidationError", <<"response">>)
            ELSE Replied(blocks, prompt, [prompt |-> messages, response |-> raw.v],
                         sub_closing_fence(
                             sub_opening_fence(strip(extract_reply(raw.v)))))
        Asked(blocks, prompt, messages) ==
            Answered(blocks, prompt, messages, ollama_chat(messages, up))
        Prompted(blocks, prompt) ==
            Asked(blocks, prompt,
                  <<[role |-> "system", content |-> _SYSTEM_PROMPT],
                    [role |-> "user",
                     content |-> _USER_PROMPT_TEMPLATE
                                     \o _enumerate_document(prompt.lines)
                                     \o <<"\n">>]>>)
        Loaded(loaded) ==
            IF loaded.kind = "raise" THEN loaded
            ELSE Prompted(loaded.v, blocks_to_prompt_lines_with_mapping(loaded.v))
    IN  Loaded(load_blocks(filename, payload, at))

\* the reply texts: the JSON documents, bare and fenced, and texts that are
\* no JSON
NeuralReplyTexts ==
    {json_dumps(v) : v \in NeuralReplyValues}
        \cup {Fence \o Json \o <<"\n">> \o json_dumps(v) \o <<"\n">> \o Fence :
                 v \in NeuralReplyValues}
        \cup {<<"n", "e", "t">>, <<>>, Fence}

ChatAnswer(data) ==
    HttpResponse("200", JsonType, <<>>, data)

\* the exchanges of the detector with the runtime
NeuralExchanges ==
    {ChatAnswer(JDict([message |-> JDict([content |-> JStr(text)])])) :
         text \in NeuralReplyTexts}
        \cup {ChatAnswer(JDict([response |-> JStr(json_dumps(v))])) :
                 v \in NeuralReplyValues}
        \cup {ChatAnswer(JList(<<>>))} \cup ErrorExchanges

F_pdf == <<"r", ".", "p", "d", "f">>

\* Наименование | Кол-во | Цена / 1 | Стул офисный | 10 | 1500
Y_chairs ==
    DocxTbl(<<[i \in 1..Len(R_header) |-> Cell(R_header[i])],
              [i \in 1..Len(R_chair) |-> Cell(R_chair[i])]>>)

\* a heading, a table of goods, a text, a table of another kind, a second
\* table of goods
ChairsBody ==
    <<DocxP(X_spec), Y_chairs, DocxP(X_text), Y_other, Y_chairs>>

\* the documents the detector is given
NeuralDocuments ==
    ({F_docx} \X ({Package(body) : body \in LongBodies}
                      \cup {Package(<<DocxP(X_spec), Y_goods>>),
                            Package(ChairsBody),
                            BrokenPackage("KeyError", "")}))
        \cup ({F_txt, F_pdf} \X {TextFile(X_spec \o <<"\n", "K", "o", "l", "|", "1">>),
                                 TextFile(<<>>)})

\* detect_specification is called on a document
DetectSpecification ==
    /\ lib_run = NoCall /\ UploadIdle
    /\ \E document \in NeuralDocuments, up \in NeuralExchanges :
         lib_run' = LibCall("detect_specification",
                            [filename |-> document[1], payload |-> document[2],
                             up |-> up],
                            detect_specification(document[1], document[2],
                                                 "0x7f01", up))
    /\ UNCHANGED <<handler_vars, export_vars, process>>

InitResponses ==
    /\ upload_run = NoCall
    /\ ExtractorIdle /\ ApiIdle /\ HealthIdle /\ RestIdle

\* one response is produced at a time
NextResponses ==
    \/ LibIdle /\ PostApiSpecification
    \/ SpecificationAnswered
    \/ BuildSpecificationResponse \/ DetectSpecification \/ LibReturned

\* the three producers of a SpecificationResponse
SpecResponses == InitResponses /\ [][NextResponses]_vars

-----------------------------------------------------------------------------
(* Claims about the responses (checked under SpecResponses).               *)

\* the previews of a SpecificationResponse: of the anchors of the section,
\* and of each table and its anchors
previews(specification) ==
    {specification.start_anchor.preview, specification.end_anchor.preview}
        \cup UNION {{specification.tables[i].preview,
                     specification.tables[i].start_anchor.preview,
                     specification.tables[i].end_anchor.preview} :
                        i \in 1..Len(specification.tables)}

\* the SpecificationResponse objects of the state: returned by the builder,
\* sent by the upload route, returned by the detector
Responses ==
    (IF lib_run.t = "call" /\ lib_run.fn = "build_specification_response"
         THEN {lib_run.result} ELSE {})
    \cup (IF lib_run.t = "call" /\ lib_run.fn = "detect_specification"
             /\ lib_run.result.kind = "return"
              THEN {lib_run.result.v.specification} ELSE {})
    \cup (IF upload_run.t = "run" /\ upload_run.response.status = "200"
              THEN {upload_run.response.body} ELSE {})

\* C18: every preview of every SpecificationResponse the builder, the upload
\* route and the detector produce is at most 200 characters long
C18_PreviewsAtMostLimit ==
    \A specification \in Responses :
        \A preview \in previews(specification) : Len(preview) <= PreviewLimit

\* a text was cut: a response holds a preview of exactly 200 characters
\* whose source was longer
C18_Cut(specification) ==
    \E preview \in previews(specification) : Len(preview) = PreviewLimit
C18_Witness ==
    /\ lib_run.t = "call" /\ lib_run.fn = "detect_specification"
    /\ lib_run.result.kind = "return"
    /\ lib_run.arg.up.t = "http" /\ lib_run.arg.up.data.t = "dict"
    /\ LET reply == neural_json_loads(extract_reply(lib_run.arg.up.data))
       IN  /\ reply.kind = "return" /\ reply.v.t = "dict"
           /\ Get(reply.v, "start").t = "dict"
           /\ Get(Get(reply.v, "start"), "preview").t = "str"
           /\ Len(Get(Get(reply.v, "start"), "preview").s) > PreviewLimit
    /\ Len(lib_run.result.v.specification.start_anchor.preview) = PreviewLimit

-----------------------------------------------------------------------------
(* Claims about the fallback heuristic of the raw-text extractor (checked  *)
(* under SpecExtractor).                                                   *)

\* the extractor returned the result of the fallback heuristic
FellBack == ExDone /\ ex_ret.kind = "return" /\ ex_ret.used_fallback

\* the lines of the text the heuristic was given
HeuristicLines ==
    LET raw == splitlines(strip(ex_call.text))
    IN  [i \in 1..Len(raw) |-> rstrip(raw[i])]

\* "специфика"
Specifika == <<"s", "p", "e", "c", "i", "f", "i", "k", "a">>

\* the block starts at the first line that holds the pattern, whatever the
\* case of its letters; without such a line the block and the rows are empty
C19_StartsAtFirst(pattern) ==
    FellBack =>
        LET lines == HeuristicLines
            starts == {i \in 1..Len(lines) : contains(lower(lines[i]), pattern)}
        IN  IF starts = {}
                THEN ex_ret.specification_text = <<>> /\ ex_ret.table_rows = <<>>
                ELSE \E e \in (Min(starts) + 1)..(Len(lines) + 1) :
                        ex_ret.specification_text =
                            strip(join(<<"\n">>, SubSeq(lines, Min(starts), e - 1)))

\* C19 as stated: the fallback block starts at the first line that holds
\* "специфика", case-insensitively; when no line holds it the block is the
\* empty string and table_rows is empty
C19_StartsAtFirstSpecifikaLine == C19_StartsAtFirst(Specifika)

\* C19, amended: the fallback block starts at the first line that holds
\* "спецификац", case-insensitively; when no line holds it the block is the
\* empty string and table_rows is empty
C19_StartsAtFirstSpecifikacLine == C19_StartsAtFirst(SpecPattern)

\* a line holding "специфика" alone is passed over: the block starts at
\* the heading two lines below the top
C19_Witness ==
    /\ FellBack
    /\ ex_call.text = join(<<"\n">>, <<L_row, L_specifika, L_spec, L_row>>)
    /\ splitlines(ex_ret.specification_text)[1] = strip(L_spec)
    /\ ex_ret.table_rows # <<>>

\* the index of the start line, from 1
C20_Start ==
    Min({i \in 1..Len(HeuristicLines) :
            contains(lower(HeuristicLines[i]), SpecPattern)})

\* the trimmed, case-folded line holds a stop word
C20_StopLine(line) ==
    \E w \in 1..Len(STOP_WORDS) : contains(lower(strip(line)), STOP_WORDS[w])

\* the end of the block: the first stop-word line more than 5 lines after
\* the start, or the end of the input
C20_End ==
    LET lines == HeuristicLines
        ends == {e \in 1..Len(lines) :
                    e - C20_Start > StopDistance /\ C20_StopLine(lines[e])}
    IN  IF ends = {} THEN Len(lines) + 1 ELSE Min(ends)

\* C20: given the start line s, the fallback block ends at the first line e
\* with e - s > 5 whose trimmed, case-folded text holds a stop word, or at
\* the end of the input; the block is the lines s..e-1 joined by line
\* breaks and trimmed, so a stop-word line at distance 5 or less never ends
\* the block
C20_BlockEndsAtDistantStopLine ==
    (FellBack /\ _locate_start(HeuristicLines) # -1) =>
        /\ ex_ret.specification_text =
               strip(join(<<"\n">>, SubSeq(HeuristicLines, C20_Start, C20_End - 1)))
        /\ \A e \in 1..Len(HeuristicLines) :
              (/\ C20_Start < e /\ e - C20_Start <= StopDistance
               /\ C20_StopLine(HeuristicLines[e])
               /\ e < C20_End)
                  => contains(ex_ret.specification_text, strip(HeuristicLines[e]))

\* a stop-word line 5 lines after the start stays inside the block, which
\* ends at the next stop-word line
C20_Witness ==
    /\ FellBack
    /\ ex_call.text = LongText(StopDistance - 1, 1)
    /\ contains(ex_ret.specification_text, L_stop)
    /\ ~contains(ex_ret.specification_text, <<"O", "p", "l", "a", "t", "a">>)
    /\ C20_End = Len(HeuristicLines) - 1

-----------------------------------------------------------------------------
(* Claims about the table rows of the fallback heuristic (checked under    *)
(* SpecExtractor).                                                         *)

\* the lines of the fallback block
C21_BlockLines == splitlines(ex_ret.specification_text)

\* the positions of a line that separate cells: every "|" when the line
\* holds one, else every tab and every position inside a run of 3 or more
\* whitespace characters
C21_Separators(line) ==
    IF \E i \in 1..Len(line) : line[i] = "|"
        THEN {i \in 1..Len(line) : line[i] = "|"}
        ELSE {i \in 1..Len(line) :
                \/ line[i] = "\t"
                \/ \E a \in 1..i : \E b \in i..Len(line) :
                      /\ b - a + 1 >= 3
                      /\ \A k \in a..b : line[k] \in WS}

\* the trimmed, non-blank cells of a line, in order: the k-th cell is the
\* k-th maximal separator-free segment with a character that is not blank
C21_Cells(line) ==
    LET seps == C21_Separators(line)
        Segment(a, b) == /\ a <= b
                         /\ \A k \in a..b : k \notin seps
                         /\ (a = 1 \/ (a - 1) \in seps)
                         /\ (b = Len(line) \/ (b + 1) \in seps)
                         /\ \E k \in a..b : line[k] \notin WS
        starts == {a \in 1..Len(line) : \E b \in a..Len(line) : Segment(a, b)}
        EndOf(a) == CHOOSE b \in a..Len(line) : Segment(a, b)
        Nth(k) == CHOOSE a \in starts : Cardinality({x \in starts : x < a}) = k - 1
    IN  [k \in 1..Cardinality(starts) |-> strip(SubSeq(line, Nth(k), EndOf(Nth(k))))]

\* the block lines that contribute a row: at least 2 cells and 2 digits
C21_RowLines ==
    {i \in 1..Len(C21_BlockLines) :
        /\ Len(C21_Cells(strip(C21_BlockLines[i]))) >= 2
        /\ Cardinality({k \in 1..Len(C21_BlockLines[i]) :
                           C21_BlockLines[i][k] \in Digits}) >= 2}

\* C21: every row of table_rows of a fallback result comes from exactly one
\* non-blank line of the fallback block, in line order, has at least 2
\* cells, all of them trimmed and non-blank, and its source line holds at
\* least 2 digits; conversely every block line that yields at least 2 cells
\* (split on "|" when present, else on runs of 3 or more spaces or a tab)
\* and has at least 2 digits contributes a row
C21_RowsAreTheQualifyingLines ==
    FellBack =>
        LET rows == ex_ret.table_rows
            from == C21_RowLines
            Source(k) == CHOOSE i \in from : Cardinality({x \in from : x < i}) = k - 1
        IN  /\ Len(rows) = Cardinality(from)
            /\ \A k \in 1..Len(rows) :
                  /\ rows[k] = C21_Cells(strip(C21_BlockLines[Source(k)]))
                  /\ strip(C21_BlockLines[Source(k)]) # <<>>
                  /\ Len(rows[k]) >= 2
                  /\ \A c \in 1..Len(rows[k]) :
                        rows[k][c] # <<>> /\ rows[k][c] = strip(rows[k][c])

\* a block whose lines with one digit, one cell or a run of two spaces give
\* no row, next to a line split at a tab that gives one
C21_Witness ==
    /\ FellBack
    /\ ex_call.text = join(<<"\n">>, <<L_spec, L_pipe1, L_tab2>>)
    /\ ex_ret.table_rows = << <<<<"a">>, <<"1", "2">>>> >>

-----------------------------------------------------------------------------
(* Claims about the tables of the heuristic locator's result (checked      *)
(* under SpecUpload).                                                      *)

\* "наименован", "ед.", "кол", "цена", "сумм"
C22_Keywords ==
    << <<"n", "a", "i", "m", "e", "n", "o", "v", "a", "n">>, <<"e", "d", ".">>,
       <<"k", "o", "l">>, <<"c", "e", "n", "a">>, <<"s", "u", "m", "m">> >>

\* a cell of the table holds one of the keywords, whatever the case of its
\* letters
C22_HoldsKeyword(block) ==
    \E r \in 1..Len(block.rows) : \E c \in 1..Len(block.rows[r]) :
        \E k \in 1..Len(C22_Keywords) :
            contains(lower(block.rows[r][c]), C22_Keywords[k])

\* every table of the result passes the test, and no table is included
\* after a table block that follows the first included table and fails it
C22_IncludedTablesPass(Passes(_)) ==
    Located =>
        LET blocks == upload_run.extraction.blocks
            result == upload_run.extraction.outcome.v
            tables == C11_TableIndices(result)
        IN  /\ \A i \in 1..Len(result.tables) : Passes(result.tables[i].block)
            /\ \A f \in (Min(tables) + 1)..(Len(blocks) - 1) :
                  (blocks[f + 1].type = "table" /\ ~Passes(blocks[f + 1]))
                      => \A t \in tables : t < f

\* C22 as stated: every table recorded in the heuristic locator's result
\* passes the table classifier is_specification_table, and once one table
\* has been included the first later table block that fails the classifier
\* ends the scan, so no table after it is included
C22_IncludedTablesPassClassifier ==
    C22_IncludedTablesPass(is_specification_table)

\* C22, amended: every table recorded in the heuristic locator's result
\* holds one of the keywords "наименован", "ед.", "кол", "цена", "сумм" in
\* the lower-cased text of a cell, and once one table has been included the
\* first later table block that holds none of them ends the scan, so no
\* table after it is included
C22_IncludedTablesHoldKeyword ==
    C22_IncludedTablesPass(C22_HoldsKeyword)

\* a table without a keyword after the first included table ended the
\* scan: the table with keywords that follows it is not in the result
C22_Witness ==
    /\ Located
    /\ LET blocks == upload_run.extraction.blocks
           result == upload_run.extraction.outcome.v
       IN  /\ Len(result.tables) = 1
           /\ \E f \in 1..(Len(blocks) - 2) :
                 /\ result.tables[1].index < f
                 /\ blocks[f + 1].type = "table"
                 /\ ~C22_HoldsKeyword(blocks[f + 1])
                 /\ blocks[f + 2].type = "table"
                 /\ C22_HoldsKeyword(blocks[f + 2])

\* the shape of a result of the heuristic locator over the blocks
C23_WellFormed(blocks, result) ==
    LET tables == result.tables
    IN  /\ tables # <<>>
        /\ \A i \in 1..Len(tables) :
              /\ tables[i].start_index = tables[i].index
              /\ tables[i].end_index = tables[i].index
              /\ tables[i].index \in 0..(Len(blocks) - 1)
              /\ blocks[tables[i].index + 1].type = "table"
              /\ tables[i].block = blocks[tables[i].index + 1]
              /\ result.start_index < tables[i].index
              /\ tables[i].index <= result.end_index
        /\ \A i \in 1..(Len(tables) - 1) : tables[i].index < tables[i + 1].index
        /\ result.start_index \in 0..(Len(blocks) - 1)
        /\ result.end_index < Len(blocks)
        /\ blocks[result.start_index + 1].type = "paragraph"
        /\ result.heading = blocks[result.start_index + 1].text
        /\ result.start_block = blocks[result.start_index + 1]
        /\ result.end_block = blocks[result.end_index + 1]

\* C23: every SpecificationResult returned by the heuristic locator has a
\* non-empty list of tables; each TableRegion has start_index = end_index =
\* index and its block is the table block at that index; the region indices
\* are strictly increasing; the heading is a paragraph block at start_index;
\* start_index < every region index <= end_index < number of blocks;
\* start_block and end_block are the blocks at start_index and end_index.  A
\* document with no such section yields the absent result (the not-found
\* failure of the caller), never a result with zero tables
C23_ResultWellFormed ==
    Parsed =>
        LET blocks == upload_run.extraction.blocks
            outcome == upload_run.extraction.outcome
        IN  /\ outcome.kind = "return"
                => /\ outcome.v.t = "result"
                   /\ C23_WellFormed(blocks, outcome.v)
            /\ outcome.kind = "raise"
                => outcome = Raise("ValueError", NotFound)
            /\ (\A i \in 1..Len(blocks) :
                   blocks[i].type = "table" => ~C22_HoldsKeyword(blocks[i]))
                => outcome.kind = "raise"

\* a section with two tables whose heading is not the first block
C23_Witness ==
    /\ Parsed
    /\ LET blocks == upload_run.extraction.blocks
           outcome == upload_run.extraction.outcome
       IN  /\ outcome.kind = "return"
           /\ outcome.v.start_index > 0
           /\ Len(outcome.v.tables) = 2
           /\ outcome.v.end_index = Len(blocks) - 1

-----------------------------------------------------------------------------
(* Claims about the table classifier (checked under SpecLibrary).          *)

\* "№", "#": the numbering markers
C24_Numbering == {"No", "#"}

\* one of the first two rows holds a header keyword, or one of them holds a
\* numbering marker
C24_HeaderMarked(rows) ==
    \E r \in 1..Min({2, Len(rows)}) :
        \/ contains_any(C14_RowText(rows[r]), _HEADER_KEYWORDS)
        \/ \E c \in 1..Len(rows[r]) : \E k \in 1..Len(rows[r][c]) :
              rows[r][c][k] \in C24_Numbering

\* row 0 has at least 3 cells of which more than 1 is non-blank
C24_WideRow(row) ==
    /\ Len(row) >= 3
    /\ Cardinality({c \in 1..Len(row) : ~Blank(row[c])}) > 1

\* C24: is_specification_table returns false for every non-table block and
\* every table with fewer than 2 rows, and whenever it returns true
\* table_has_goods of the same rows is true; when neither of the first two
\* rows holds a header keyword and the header has no numbering marker (№ or
\* #), it returns false unless row 0 has at least 3 cells of which more than
\* 1 is non-blank
C24_ClassifierRejects ==
    Classified =>
        LET block == lib_run.arg
            rows == block.rows
        IN  /\ block.type # "table" => lib_run.result = FALSE
            /\ Len(rows) < 2 => lib_run.result = FALSE
            /\ lib_run.result = TRUE
                  => /\ block.type = "table"
                     /\ table_has_goods(rows)
            /\ (/\ block.type = "table" /\ Len(rows) >= 2
                /\ ~C24_HeaderMarked(rows)
                /\ ~C24_WideRow(rows[1]))
                  => lib_run.result = FALSE

\* a table without header keywords and numbering is rejected with two cells
\* in row 0, although its second row is a goods row
C24_Witness ==
    /\ Classified
    /\ lib_run.arg.type = "table"
    /\ lib_run.arg.rows = << << <<"a", "b">>, <<"1", "2", "3", "4">> >>, R_chair >>
    /\ table_has_goods(lib_run.arg.rows)
    /\ lib_run.result = FALSE

-----------------------------------------------------------------------------
(* Claims about the neural detector (checked under SpecResponses).         *)

\* detect_specification returned a response
Detected ==
    /\ lib_run.t = "call" /\ lib_run.fn = "detect_specification"
    /\ lib_run.result.kind = "return"

\* the blocks of the document the detector was given, and the mapping of
\* their prompt lines
C25_Blocks == load_blocks(lib_run.arg.filename, lib_run.arg.payload, "0x7f01").v
C25_Mapping == blocks_to_prompt_lines_with_mapping(C25_Blocks).mapping

\* the prompt lines of block b, counted from 0
C25_Positions(mapping, b) ==
    {i \in 0..(Len(mapping) - 1) : mapping[i + 1][1] = b}

\* the lines of the resolved range: from start (0 when negative) to end,
\* or to the last line when end is negative, past the last line or before
\* start
C25_Lines(mapping, start, end) ==
    LET total == Len(mapping)
        from == IF start < 0 THEN 0 ELSE start
        to == IF end < 0 \/ end >= total \/ end < from THEN total - 1 ELSE end
    IN  {i \in 0..(total - 1) : from <= i /\ i <= to}

\* the table blocks with a line in the range that pass the classifier
C25_Derived(blocks, mapping, start, end) ==
    {b \in {mapping[i + 1][1] : i \in C25_Lines(mapping, start, end)} :
        is_specification_table(blocks[b + 1])}

\* the tables are the derived blocks, each once, in document order, each
\* anchored at its first and last prompt line
C25_Rederived(tables, blocks, mapping, derived) ==
    LET Nth(k) == CHOOSE b \in derived :
                      Cardinality({x \in derived : x < b}) = k - 1
    IN  /\ Len(tables) = Cardinality(derived)
        /\ \A k \in 1..Len(tables) :
              /\ tables[k].index = Nth(k)
              /\ tables[k].rows = blocks[Nth(k) + 1].rows
              /\ tables[k].start_anchor.index = Min(C25_Positions(mapping, Nth(k)))
              /\ tables[k].end_anchor.index = Max(C25_Positions(mapping, Nth(k)))
              /\ tables[k].start_anchor.index <= tables[k].end_anchor.index

\* the walk over the lines first..last stays inside the mapping and the
\* blocks, and covers the resolved range
C25_WalkInside(blocks, mapping, walked, start, end) ==
    /\ \A i \in walked.first..walked.last :
          /\ i \in 0..(Len(mapping) - 1)
          /\ mapping[i + 1][1] \in 0..(Len(blocks) - 1)
    /\ walked.first..walked.last = C25_Lines(mapping, start, end)

\* the statement for a response, over the blocks and the mapping
C25_Holds(specification, blocks, mapping) ==
    LET tables == specification.tables
        start == specification.start_anchor.index
        end == specification.end_anchor.index
        derived == C25_Derived(blocks, mapping, start, end)
    IN  /\ \A i \in 1..Len(tables) :
              tables[i].rows # <<>> /\ table_has_goods(tables[i].rows)
        /\ derived # {} => C25_Rederived(tables, blocks, mapping, derived)
        /\ mapping # <<>>
              => C25_WalkInside(blocks, mapping,
                                section_range(mapping, start, end), start, end)

\* C25: in every response returned by the neural detector, each table has
\* non-empty rows and passes table_has_goods; when the re-derivation over
\* the resolved start..end line range finds at least one classifier-passing
\* table block, the response's tables are exactly those blocks, each
\* distinct block once in document order with start anchor <= end anchor at
\* that block's first and last prompt-line positions, and none of the
\* model-reported tables remain; for any start/end indices (including -1,
\* reversed or past the last line) the re-derivation reads no line or block
\* outside the mapping
C25_TablesHoldGoodsAndAreRederived ==
    Detected => C25_Holds(lib_run.result.v.specification, C25_Blocks, C25_Mapping)

\* a reply that names no lines and lists a table of its own, for a document
\* with two tables of goods around a table of another kind: the response
\* holds the two tables of the document, each over its two prompt lines
C25_Witness ==
    /\ Detected
    /\ lib_run.arg.payload = Package(ChairsBody)
    /\ lib_run.result.v.specification.start_anchor.index = -1
    /\ lib_run.result.v.specification.end_anchor.index = -1
    /\ LET tables == lib_run.result.v.specification.tables
       IN  /\ Len(tables) = 2
           /\ tables[1].index = 1 /\ tables[2].index = 4
           /\ tables[1].start_anchor.index = 1 /\ tables[1].end_anchor.index = 2

\* the detector was called on a document it could read and the chat model
\* answered with a JSON object, from which the reply text is taken
C26_Replied ==
    /\ lib_run.t = "call" /\ lib_run.fn = "detect_specification"
    /\ load_blocks(lib_run.arg.filename, lib_run.arg.payload, "0x7f01").kind = "return"
    /\ ollama_chat(<<>>, lib_run.arg.up).kind = "return"
    /\ lib_run.arg.up.data.t = "dict"

\* the reply after the code fences were stripped
C26_Reply ==
    sub_closing_fence(sub_opening_fence(strip(extract_reply(lib_run.arg.up.data))))

\* the parsed reply has a truthy found field
C26_Found(v) == v.t = "dict" /\ ~Falsy(Get(v, "found"))

\* the model's reason, or the default not-found message
C26_Reason(v) ==
    IF v.t = "dict" /\ ~Falsy(Get(v, "reason")) THEN PyStr(Get(v, "reason"))
    ELSE SectionNotFound

\* what the detector does with the reply, given what the reply parses to
C26_ByReply(result, reply, parsed) ==
    /\ result.kind = "return" => (parsed.kind = "return" /\ C26_Found(parsed.v))
    /\ parsed.kind = "raise"
          => result = Raise("ValueError", UnexpectedReply \o reply)
    /\ (parsed.kind = "return" /\ ~C26_Found(parsed.v))
          => result = Raise("ValueError", C26_Reason(parsed.v))
    /\ result.kind = "raise" => result.exc = "ValueError"

\* C26: detect_specification returns a response only when the model's reply
\* (after stripping code fences) parses as JSON with a truthy found field; a
\* reply that is not valid JSON raises the detector's value failure carrying
\* the raw reply text, and every parsed reply whose found is falsy or absent
\* raises the value failure carrying the model's reason or the default
\* not-found message; no other kind of exception results from the shape of
\* the model's reply
C26_ReplyShapeRaisesValueFailureOnly ==
    C26_Replied =>
        C26_ByReply(lib_run.result, C26_Reply, neural_json_loads(C26_Reply))

\* the value is a number for int(): a number, a boolean, or a string of
\* digits between blanks
C27_Numeric(v) ==
    \/ v.t \in {"num", "bool"}
    \/ /\ v.t = "str"
       /\ strip(v.s) # <<>>
       /\ \A i \in 1..Len(strip(v.s)) : strip(v.s)[i] \in Digits

\* rows is a list of lists of strings
C27_RowsShaped(rows) ==
    /\ rows.t = "list"
    /\ \A i \in 1..Len(rows.l) :
          /\ rows.l[i].t = "list"
          /\ \A j \in 1..Len(rows.l[i].l) : rows.l[i].l[j].t = "str"

\* a malformed entry of the tables list: not a mapping, a count that is no
\* number, rows of the wrong shape, a start or end that is no mapping
C27_Malformed(entry) ==
    \/ entry.t # "dict"
    \/ /\ entry.t = "dict"
       /\ \/ \E key \in {"row_count", "column_count"} :
                ~Falsy(Get(entry, key)) /\ ~C27_Numeric(Get(entry, key))
          \/ ~Falsy(Get(entry, "rows")) /\ ~C27_RowsShaped(Get(entry, "rows"))
          \/ \E key \in {"start", "end"} :
                ~Falsy(Get(entry, key)) /\ Get(entry, key).t # "dict"

\* the reply with the i-th entry of its tables list taken out
C27_Without(data, i) ==
    LET items == data.f["tables"].l
    IN  JDict([key \in DOMAIN data.f |->
                  IF key = "tables"
                      THEN JList(SubSeq(items, 1, i - 1)
                                     \o SubSeq(items, i + 1, Len(items)))
                      ELSE data.f[key]])

\* the call ends as it ends for the reply without the entry: with the same
\* failure, or with the same heading, anchors and tables
C27_Same(result, other) ==
    IF result.kind = "return"
        THEN other.kind = "return" /\ result.v.specification = other.v.specification
        ELSE result = other

\* the statement for a parsed reply over the prompt lines of the blocks
C27_Holds(result, data, blocks, prompt) ==
    (data.t = "dict" /\ "tables" \in DOMAIN data.f /\ data.f["tables"].t = "list")
        => \A i \in 1..Len(data.f["tables"].l) :
              C27_Malformed(data.f["tables"].l[i])
                  => C27_Same(result,
                              detect_from_reply(C27_Without(data, i), blocks,
                                                prompt.lines, prompt.mapping, <<>>))

-----------------------------------------------------------------------------
(* Two processes exporting into one directory.  A call of                  *)
(* export_specification_to_docx takes two steps: _next_available_path      *)
(* chooses the target path from the files the directory holds at that      *)
(* moment, and write_bytes writes the payload to it later.  No file is     *)
(* removed meanwhile, so every candidate the loop of _next_available_path  *)
(* found taken stays taken, and the moment of its last exists() call is    *)
(* the moment of the choice.                                               *)

\* the responses and source names of the racing exports
RaceTables ==
    {<<>>,
     <<ExportTable(<< <<<<"a">>, <<"1">>>> >>)>>,
     <<ExportTable(<< <<<<"b">>>>, <<<<"c">>, <<"2">>>> >>)>>}
RaceFilenames ==
    {JStr(<<"a", " ", "b", ".", "d", "o", "c", "x">>),
     JStr(<<"d", "/", "a", "_", "b", ".", "t", "x", "t">>),
     JStr(<<"a", ".", "d", "o", "c", "x">>)}

\* the calls of the exporter begun so far
Begun == Cardinality({i \in 1..Len(export_log) : export_log[i].t # "write"})

InitRace ==
    /\ export_dir = {}
    /\ export_log = <<>>
    /\ exporting = NotExporting
    /\ ExtractorIdle /\ ApiIdle /\ HealthIdle /\ UploadIdle /\ LibIdle
    /\ ProcessIdle

\* export_specification_to_docx up to the return of _next_available_path
\* (lines 91-107): without a table that has rows it returns None
ChooseTargetPath(p) ==
    /\ exporting[p].pc = "idle"
    /\ Begun < MaxExports
    /\ \E tables \in RaceTables, source_filename \in RaceFilenames :
         LET done == export_specification_to_docx(
                         [heading |-> <<>>, tables |-> tables],
                         source_filename, export_dir)
         IN  IF done.returned = NoneV
                 THEN /\ export_log' = Append(export_log, [t |-> "none", by |-> p])
                      /\ UNCHANGED exporting
                 ELSE /\ export_log' =
                             Append(export_log,
                                    [t |-> "choose", by |-> p,
                                     path |-> done.returned.path])
                      /\ exporting' =
                             [exporting EXCEPT
                                 ![p] = [pc |-> "chosen",
                                         target_path |-> done.returned.path,
                                         payload |-> done.returned.payload]]
    /\ UNCHANGED <<handler_vars, lib_run, process, export_dir>>

\* target_path.write_bytes(payload) and the return (lines 108-110)
WriteTargetPath(p) ==
    /\ exporting[p].pc = "chosen"
    /\ export_dir' = write_bytes(export_dir, exporting[p].target_path,
                                 exporting[p].payload)
    /\ export_log' = Append(export_log,
                            [t |-> "write", by |-> p,
                             path |-> exporting[p].target_path,
                             payload |-> exporting[p].payload,
                             before |-> export_dir])
    /\ exporting' = [exporting EXCEPT ![p] = [pc |-> "idle"]]
    /\ UNCHANGED <<handler_vars, lib_run, process>>

NextRace ==
    \/ \E p \in Exporters : ChooseTargetPath(p)
    \/ \E p \in Exporters : WriteTargetPath(p)

SpecExportRace == InitRace /\ [][NextRace]_vars

-----------------------------------------------------------------------------
(* Claims about racing exports (checked under SpecExportRace).             *)

\* the writes of the log
C28_Writes == {i \in 1..Len(export_log) : export_log[i].t = "write"}

\* the step at which the export written at step j chose its path
C28_ChosenAt(j) ==
    Max({k \in 1..(j - 1) : /\ export_log[k].t = "choose"
                            /\ export_log[k].by = export_log[j].by})

\* the write at step j overwrites the export written at step i
C28_Overwrites(i, j) ==
    /\ i < j
    /\ export_log[i].path = export_log[j].path

\* C28: the exporter's free-name selection is not atomic with its write:
\* when two export operations for the same filename into the same directory
\* interleave, there is an interleaving in which both find the same
\* candidate path free, both write to it, and the later write overwrites
\* the earlier export (the witness); with no interleaving between one
\* export's existence check and its write this cannot happen: a write
\* overwrites an export only when that export was written between the
\* overwriting export's choice of the path and its write
C28_OverwriteOnlyAcrossCheckAndWrite ==
    \A i \in C28_Writes, j \in C28_Writes :
        C28_Overwrites(i, j)
            => /\ C28_ChosenAt(j) < i
               /\ export_log[i].by # export_log[j].by
               /\ export_log[C28_ChosenAt(i)].path = export_log[C28_ChosenAt(j)].path

\* both exporters chose the same free path before either wrote; both wrote,
\* and the directory holds the payload of the later write only
C28_Witness ==
    \E i \in C28_Writes, j \in C28_Writes :
        /\ C28_Overwrites(i, j)
        /\ C28_ChosenAt(i) < C28_ChosenAt(j) /\ C28_ChosenAt(j) < i
        /\ export_log[i].payload # export_log[j].payload
        /\ export_log[j].before = {[path |-> export_log[i].path,
                                    payload |-> export_log[i].payload]}
        /\ export_dir = {[path |-> export_log[j].path,
                          payload |-> export_log[j].payload]}

-----------------------------------------------------------------------------
(* Claims about the blocks of document ingestion (checked under            *)
(* SpecUpload).                                                            *)

\* a cell without a character that is not whitespace
C29_Blank(cell) == \A i \in 1..Len(cell) : cell[i] \in WS

\* the content of a block goes with its type; textual: a paragraph has text
C29_Shaped(block, textual) ==
    IF block.type = "paragraph"
        THEN /\ block.rows = <<>>
             /\ textual => block.text # <<>>
        ELSE /\ block.type = "table"
             /\ block.text = <<>>
             /\ block.rows # <<>>
             /\ \A r \in 1..Len(block.rows) :
                    \E c \in 1..Len(block.rows[r]) : ~C29_Blank(block.rows[r][c])

C29_AllShaped(blocks, textual) ==
    \A b \in 1..Len(blocks) : C29_Shaped(blocks[b], textual)

\* the blocks document_processing.load_blocks reads from the upload
C29_Loaded(loaded, textual) ==
    loaded.kind = "return" => C29_AllShaped(loaded.v, textual)

\* the upload is read as text by document_processing.load_blocks
C29_ReadAsText == lower(suffix(upload_run.filename)) # <<".", "d", "o", "c", "x">>

\* C29 (as stated): every Block produced by document ingestion (DOCX and
\* plain-text paths) carries content in exactly one of text/rows according
\* to its type: a paragraph block has non-empty text and no rows, and a
\* table block has empty text and at least one row, each row having at
\* least one non-blank cell
C29_BlocksCarryContentByType ==
    Uploaded
        => /\ C29_AllShaped(upload_run.extraction.blocks, TRUE)
           /\ C29_Loaded(load_blocks(upload_run.filename, upload_run.content,
                                     upload_run.at), TRUE)

\* C29 (amended): a paragraph block has no rows, and non-empty text when it
\* comes from the plain-text path (a DOCX paragraph without text becomes a
\* paragraph block with empty text); a table block has empty text and at
\* least one row, each row having at least one non-blank cell
C29_BlocksCarryContentByTypeOrNoText ==
    Uploaded
        => /\ C29_AllShaped(upload_run.extraction.blocks,
                            upload_run.extraction.parser = "_parse_plain_text")
           /\ C29_Loaded(load_blocks(upload_run.filename, upload_run.content,
                                     upload_run.at), C29_ReadAsText)

\* a DOCX upload read into a paragraph with text, a paragraph without, and
\* a table that lost a row without text
C29_Witness ==
    /\ Uploaded
    /\ upload_run.extraction.parser = "_parse_docx"
    /\ \E i, j, k \in 1..Len(upload_run.extraction.blocks) :
           /\ upload_run.extraction.blocks[i] = Paragraph(<<>>)
           /\ upload_run.extraction.blocks[j].type = "paragraph"
           /\ upload_run.extraction.blocks[j].text # <<>>
           /\ upload_run.extraction.blocks[k].type = "table"
           /\ \E c \in 1..Len(upload_run.content.body) :
                  /\ upload_run.content.body[c].tag = "tbl"
                  /\ Len(upload_run.content.body[c].rows)
                         > Len(upload_run.extraction.blocks[k].rows)
    /\ load_blocks(upload_run.filename, upload_run.content, upload_run.at)
           = Return(upload_run.extraction.blocks)

-----------------------------------------------------------------------------
(* Claims about plain-text ingestion (checked under SpecUpload).           *)

\* the upload is read by document_parser._parse_plain_text
C30_Read == Uploaded /\ upload_run.extraction.parser = "_parse_plain_text"

\* the lines of the upload as document_parser and document_processing
\* read them
C30_Lines(Trim(_)) ==
    LET Each(raw_lines) == [i \in 1..Len(raw_lines) |-> Trim(raw_lines[i])]
    IN  Each(splitlines(upload_run.content.text))
C30_Stripped(line) == strip(line)
C30_RightStripped(line) == rstrip(line)

\* what a line is to the parser: nothing, a row of the pending table, or a
\* paragraph
C30_Kind(line) ==
    IF _clean_text_noise(line) = <<>> THEN "blank"
    ELSE IF (\E i \in 1..Len(line) : line[i] = "|") /\ C21_Cells(line) # <<>>
        THEN "row"
    ELSE "paragraph"

\* line i opens a block: a paragraph line, or the first line of a run of rows
C30_Opens(lines, i) ==
    \/ C30_Kind(lines[i]) = "paragraph"
    \/ /\ C30_Kind(lines[i]) = "row"
       /\ i = 1 \/ C30_Kind(lines[i - 1]) # "row"

\* the place among the blocks of the block that line i opens
C30_Position(lines, i) == Cardinality({k \in 1..i : C30_Opens(lines, k)})

\* the last line of the run of rows that begins at line i
C30_RunEnd(lines, i) ==
    Max({e \in i..Len(lines) : \A k \in i..e : C30_Kind(lines[k]) = "row"})

\* the block that line i opens
C30_Block(lines, i) ==
    IF C30_Kind(lines[i]) = "paragraph"
        THEN Paragraph(_clean_text_noise(lines[i]))
        ELSE Table([k \in 1..(C30_RunEnd(lines, i) - i + 1) |->
                       C21_Cells(lines[i + k - 1])])

\* the blocks are the blocks the lines open, in the order of the lines
C30_InLineOrder(lines, blocks) ==
    /\ Len(blocks) = Cardinality({i \in 1..Len(lines) : C30_Opens(lines, i)})
    /\ \A i \in 1..Len(lines) :
           C30_Opens(lines, i) => blocks[C30_Position(lines, i)] = C30_Block(lines, i)

\* table blocks next to each other
C30_AdjacentTables(blocks) ==
    {b \in 1..(Len(blocks) - 1) :
        blocks[b].type = "table" /\ blocks[b + 1].type = "table"}

\* the runs of rows that made blocks b and b + 1 have a line with empty
\* cleaned text between them
C30_AcrossBlank(lines, b) ==
    \E i \in 1..Len(lines), j \in 1..Len(lines) :
        /\ C30_Opens(lines, i) /\ C30_Position(lines, i) = b
        /\ C30_Opens(lines, j) /\ C30_Position(lines, j) = b + 1
        /\ \E k \in (i + 1)..(j - 1) : C30_Kind(lines[k]) = "blank"

C30_Loaded(lines, loaded) ==
    loaded.kind = "return" /\ C30_InLineOrder(lines, loaded.v)

\* C30 (as stated): plain-text ingestion processes lines in order with one
\* pending table: each maximal run of consecutive lines that contain "|" and
\* have a non-blank segment becomes exactly one table block with one row per
\* line; a line whose cleaned text is empty emits nothing and flushes the
\* pending table; every other line flushes the pending table and then emits
\* one paragraph block with its cleaned text; a pending table at end of
\* input is flushed; hence block order follows line order, no line with
\* non-empty cleaned text is lost or duplicated, and two table blocks are
\* never adjacent
C30_RunsBecomeTablesNeverAdjacent ==
    C30_Read
        => /\ C30_InLineOrder(C30_Lines(C30_Stripped), upload_run.extraction.blocks)
           /\ C30_Loaded(C30_Lines(C30_RightStripped),
                         load_blocks(upload_run.filename, upload_run.content,
                                     upload_run.at))
           /\ C30_AdjacentTables(upload_run.extraction.blocks) = {}

\* C30 (amended): as stated, but two table blocks are adjacent only when a
\* line with empty cleaned text lies between their runs
C30_RunsBecomeTablesAdjacentAcrossBlank ==
    C30_Read
        => /\ C30_InLineOrder(C30_Lines(C30_Stripped), upload_run.extraction.blocks)
           /\ C30_Loaded(C30_Lines(C30_RightStripped),
                         load_blocks(upload_run.filename, upload_run.content,
                                     upload_run.at))
           /\ \A b \in C30_AdjacentTables(upload_run.extraction.blocks) :
                  C30_AcrossBlank(C30_Lines(C30_Stripped), b)

\* a row line, a blank line and a row line became two adjacent table blocks
\* of one row each
C30_Witness ==
    /\ C30_Read
    /\ Len(C30_Lines(C30_Stripped)) = 3
    /\ C30_Kind(C30_Lines(C30_Stripped)[2]) = "blank"
    /\ Len(upload_run.extraction.blocks) = 2
    /\ \A b \in 1..2 : /\ upload_run.extraction.blocks[b].type = "table"
                       /\ Len(upload_run.extraction.blocks[b].rows) = 1
    /\ upload_run.extraction.blocks[1] # upload_run.extraction.blocks[2]

=============================================================================
